---------------------------- MODULE Spec2Model ----------------------------
(***************************************************************************)
(* FluxGate: the service registry of one node (package discovery), the    *)
(* backend pools (package loadbalancer), the route table (package router)  *)
(* and the server (package proxy), as state machines.                      *)
(*                                                                         *)
(* The registry and the pools live in                                      *)
(* src/internal/loadbalancer/loadbalancer.go, the route table in           *)
(* src/examples/generate-certs.sh (from its line 8 on), the server in      *)
(* src/internal/proxy/proxy.go.                                            *)
(* Every registry method holds s.mu for its whole body, so each is one     *)
(* atomic action.  The pool's writers (Add, Remove, MarkHealthy,           *)
(* MarkUnhealthy) hold the write lock and are atomic actions too; Next     *)
(* holds only the read lock, so several callers can be inside it at once.  *)
(***************************************************************************)
EXTENDS Integers, Sequences, FiniteSets, Bags, TLC

(***************************************************************************)
(* Bounds of the model.                                                    *)
(***************************************************************************)
\* Messages the transmit queue may hold before a local mutation has to wait
\* for the membership layer to take one (the real queue is unbounded).
MaxQueue == 1
\* Listeners that may subscribe (the real onChange slice is unbounded).
MaxSubs == 2
\* The greatest Connections value a Backend is created with.
MaxInitConn == 1
\* No selection is made of a backend whose Connections counter is this high.
MaxConn == 2
\* No round-robin selection is made once the counter is this high.
MaxCurrent == 4
\* In the fairness runs, the picks made per backend of the pool.
Rounds == 100
\* The longest request path handed to matchPath.
MaxPathLen == 5
\* The routes the table may hold (the real slice is unbounded).
MaxRoutes == 2
\* No request is handled once the counters of the server's pools add up to
\* this.
MaxDispatch == 2
\* In a cluster, the local mutations made on all nodes together.
MaxMutations == 3
\* The requests the data plane is sent, all told, where it is followed lock
\* by lock.
MaxReqs == 2

\* No registry call is made while this many listener goroutines are running.
MaxTasks == 2
\* No instance is registered with a Metadata map once this many maps exist.
MaxMaps == 2

(***************************************************************************)
(* Values.                                                                 *)
(***************************************************************************)
\* A value a Go map lookup or a JSON field may lack.
NoValue == "none"

Ids == {"i1", "i2"}
ServiceNames == {"s1", "s2"}
Addrs == {"a1", "a2"}
Ports == {9001}

\* type ServiceInstance: ID, Service, Address, Port.  Both ids can be filed
\* under both services; i1 of s1 also comes at a second address, so that a
\* registration can change an instance that is already held.
Instances ==
    {i \in [id : Ids, service : ServiceNames, address : Addrs, port : Ports] :
        i.address = "a1" \/ (i.id = "i1" /\ i.service = "s1")}

\* The Backend objects callers create, and the URL each is created with: b1
\* and b3 share one (two instances at the same address and port).
BackendObjs == {"b1", "b2", "b3"}
URLs == {"u1", "u2"}
URLOf(b) == IF b = "b2" THEN "u2" ELSE "u1"

\* The goroutines that call Next.
Callers == {"c1", "c2"}

VARIABLES
    services,    \* Service.services: service name -> list of instances
    broadcasts,  \* Service.broadcasts: the transmit-limited queue
    onChange,    \* Service.onChange: the subscribed listeners, in order
    spawned,     \* the goroutines `go fn(services)` the last handler started
    regOp,       \* the last registry call: its name, argument and error
    policy,      \* the pool's type: "rr" (RoundRobin) or "lc" (LeastConnection)
    backends,    \* RoundRobin.backends / LeastConnection.backends
    current,     \* RoundRobin.current
    created,     \* the Backend objects that exist
    active,      \* Backend.Active of each object
    connections, \* Backend.Connections of each object
    pc,          \* each caller of Next: "idle", or "selected" (read lock held)
    sel,         \* each caller inside Next: the backend it is about to return
    poolOp,      \* the last call that took the pool's write lock, and its arguments
    picks,       \* the backends Next selected, in order (fairness runs only)
    routes,      \* Router.routes: the routes, in insertion order
    rtOp,        \* the last call of the route table: its arguments and result
    loadBalancers, \* Server.loadBalancers: service name -> pool
    srvOp,       \* the last call of the server: its arguments and its response;
                 \* in the control-plane runs, the last call of the node
    tables,      \* in a cluster, Service.services of each node
    links,       \* in a cluster, the deltas on their way from node to node
    ledger,      \* in a cluster, the local mutations made so far, in order
    lost,        \* in a cluster, whether a delta has been lost
    clOp,        \* the last step of the cluster
    tasks,       \* the listener goroutines that have not yet finished
    marked,      \* the backends the health checker found unhealthy last
    heap,        \* the Metadata maps: reference -> map
    handed,      \* what the last read or notification handed to its caller
    mu,          \* Server.mu: who holds it for writing
    tlsMu,       \* TLSManager.mu, likewise
    upd,         \* the call of updateLoadBalancerBackends that is under way
    reqs,        \* the calls of handleRequest made so far, a bag
    reverseProxies, \* Server.reverseProxies: backend URL -> proxy object
    made,        \* the proxy objects created so far
    gauge,       \* metrics.ActiveConnections of each backend URL
    cfg,         \* the call of Server.UpdateConfig that is under way
    retired      \* the pools replaced in the map while a request held them

regVars == <<services, broadcasts, onChange, spawned, regOp>>

poolVars == <<policy, backends, current, created, active, connections, pc, sel, poolOp>>

vars == <<services, broadcasts, onChange, spawned, regOp,
          policy, backends, current, created, active, connections, pc, sel, poolOp,
          picks, routes, rtOp, loadBalancers, srvOp,
          tables, links, ledger, lost, clOp, tasks, marked, heap, handed,
          mu, tlsMu, upd, reqs, reverseProxies, made, gauge, cfg, retired>>

routerVars == <<routes, rtOp>>

proxyVars == <<loadBalancers, srvOp>>

\* The route table and the server.
srvVars == <<routes, rtOp, loadBalancers, srvOp>>

clusterVars == <<tables, links, ledger, lost, clOp>>

wireVars == <<tasks, marked>>

copyVars == <<heap, handed>>

\* The server at the grain of its locks.
planeVars == <<mu, tlsMu, upd, reqs, reverseProxies, made, gauge, cfg, retired>>

\* What the specifications of one registry, one pool, one route table or one
\* server leave as constructed.
otherVars == <<clusterVars, wireVars, copyVars, planeVars>>

(***************************************************************************)
(* Go maps and slices.                                                     *)
(***************************************************************************)
\* m[k] of a map[string][]ServiceInstance: nil (here the empty list) when the
\* key is absent.
Lookup(m, k) == IF k \in DOMAIN m THEN m[k] ELSE <<>>

\* m[k] = v
Store(m, k, v) == [x \in (DOMAIN m) \cup {k} |-> IF x = k THEN v ELSE m[x]]

\* The holder of a mutex that nobody holds.
Nobody == [by |-> "none"]

\* append(l[:i], l[i+1:]...), for a 1-based i
RemoveAt(l, i) == [k \in 1..(Len(l) - 1) |-> IF k < i THEN l[k] ELSE l[k + 1]]

\* The indices of l whose instance has the given id.
Matches(l, id) == {k \in 1..Len(l) : l[k].id = id}

\* The first index of a non-empty set of indices: where the scan breaks.
First(S) == CHOOSE k \in S : \A j \in S : k <= j

(***************************************************************************)
(* Wire values.  A byte string that is not JSON is the record Garbage; a   *)
(* JSON object is the record of its keys.  encoding/json writes strings    *)
(* and ints of these sizes exactly and reads them back unchanged, and an   *)
(* empty non-nil slice travels as [] and comes back empty and non-nil.     *)
(* The record of a message has the key action only when the JSON has a     *)
(* string there, the key instance only when it has an object there that    *)
(* decodes into a ServiceInstance, the key service_id only when it has a   *)
(* string there: a value of another type is dropped where an absent one is.*)
(***************************************************************************)
Garbage == [garbage |-> TRUE]

\* json.Marshal(map[string]any{"action": "register", "instance": instance})
RegisterDelta(instance) == [action |-> "register", instance |-> instance]

\* json.Marshal(map[string]any{"action": "deregister", "service_id": id})
DeregisterDelta(id) == [action |-> "deregister", service_id |-> id]

\* What NotifyMsg may be handed: the deltas peers enqueue, and messages it
\* has to drop.
Msgs ==
    {RegisterDelta(i) : i \in Instances}
        \cup {DeregisterDelta(d) : d \in Ids}
        \cup {Garbage, [other |-> "x"], [action |-> "ping"],
              [action |-> "register"], [action |-> "deregister"]}

\* The lists a node can hold for service s: ids distinct, every instance
\* filed under its own service name.
ListsOf(s) ==
    {l \in UNION {[1..n -> {i \in Instances : i.service = s}] : n \in 0..Cardinality(Ids)} :
        \A j, k \in 1..Len(l) : j # k => l[j].id # l[k].id}

\* What LocalState of a peer can be: any table a node can hold.
RemoteStates ==
    UNION {{r \in [D -> UNION {ListsOf(s) : s \in D}] : \A s \in D : r[s] \in ListsOf(s)} :
        D \in SUBSET ServiceNames}

(***************************************************************************)
(* The registry's methods.                                                 *)
(***************************************************************************)
\* Upsert without the search for the id: every instance is appended.
UpsertAlwaysAppends(l, inst) == Append(l, inst)

\* Upsert that drops the entry it finds and appends the new one.
UpsertMovesToEnd(l, inst) ==
    IF Matches(l, inst.id) # {}
    THEN Append(RemoveAt(l, First(Matches(l, inst.id))), inst)
    ELSE Append(l, inst)

\* The upsert loop of Register, NotifyMsg and MergeRemoteState: overwrite the
\* first entry with the instance's id, or append.
Upsert(l, inst) ==
    IF Matches(l, inst.id) # {}
    THEN [l EXCEPT ![First(Matches(l, inst.id))] = inst]
    ELSE Append(l, inst)

\* notifyListeners that starts a goroutine for the first listener only.
notifyFirstListenerOnly(svcs, subs) ==
    [k \in 1..(IF subs = <<>> THEN 0 ELSE 1) |-> [fn |-> subs[k], table |-> svcs]]

\* notifyListeners: one goroutine per listener, each handed the same copy of
\* the whole table.
notifyListeners(svcs, subs) ==
    [k \in 1..Len(subs) |-> [fn |-> subs[k], table |-> svcs]]

\* Where Deregister's scan can stop: Go ranges over the map in no fixed
\* order, and inside a service it stops at the first match.
ScanHits(svcs, id) ==
    {<<s, First(Matches(svcs[s], id))>> : s \in {x \in DOMAIN svcs : Matches(svcs[x], id) # {}}}

Register(instance) ==
    /\ Len(broadcasts) < MaxQueue
    /\ services' = Store(services, instance.service,
                         Upsert(Lookup(services, instance.service), instance))
    /\ broadcasts' = Append(broadcasts, RegisterDelta(instance))
    /\ spawned' = notifyListeners(services', onChange)
    /\ regOp' = [op |-> "Register", arg |-> instance, err |-> FALSE]
    /\ UNCHANGED <<onChange, poolVars>>

\* Deregister that queues the delta and notifies before it knows of a hit.
DeregisterBroadcastsFirst(serviceID) ==
    /\ Len(broadcasts) < MaxQueue
    /\ broadcasts' = Append(broadcasts, DeregisterDelta(serviceID))
    /\ spawned' = notifyListeners(services', onChange)
    /\ IF ScanHits(services, serviceID) # {}
       THEN \E hit \in ScanHits(services, serviceID) :
               /\ services' = Store(services, hit[1], RemoveAt(services[hit[1]], hit[2]))
               /\ regOp' = [op |-> "Deregister", arg |-> serviceID, err |-> FALSE]
       ELSE /\ UNCHANGED services
            /\ regOp' = [op |-> "Deregister", arg |-> serviceID, err |-> TRUE]
    /\ UNCHANGED <<onChange, poolVars>>

Deregister(serviceID) ==
    /\ IF ScanHits(services, serviceID) # {}
       THEN \E hit \in ScanHits(services, serviceID) :
               /\ Len(broadcasts) < MaxQueue
               /\ services' = Store(services, hit[1], RemoveAt(services[hit[1]], hit[2]))
               /\ broadcasts' = Append(broadcasts, DeregisterDelta(serviceID))
               /\ spawned' = notifyListeners(services', onChange)
               /\ regOp' = [op |-> "Deregister", arg |-> serviceID, err |-> FALSE]
       ELSE /\ UNCHANGED <<services, broadcasts>>
            /\ spawned' = <<>>
            /\ regOp' = [op |-> "Deregister", arg |-> serviceID, err |-> TRUE]
    /\ UNCHANGED <<onChange, poolVars>>

Subscribe ==
    /\ Len(onChange) < MaxSubs
    /\ onChange' = Append(onChange, Len(onChange) + 1)
    /\ spawned' = <<>>
    /\ regOp' = [op |-> "Subscribe", arg |-> Len(onChange) + 1, err |-> FALSE]
    /\ UNCHANGED <<services, broadcasts, poolVars>>

\* NotifyMsg that queues every delta it applies for the node's own peers.
NotifyMsgRebroadcasts(msg) ==
    /\ regOp' = [op |-> "NotifyMsg", arg |-> msg, err |-> FALSE]
    /\ UNCHANGED <<onChange, poolVars>>
    /\ IF "garbage" \in DOMAIN msg \/ "action" \notin DOMAIN msg
       THEN /\ UNCHANGED <<services, broadcasts>>
            /\ spawned' = <<>>
       ELSE IF msg.action = "register" /\ "instance" \in DOMAIN msg
       THEN /\ services' = Store(services, msg.instance.service,
                                 Upsert(Lookup(services, msg.instance.service), msg.instance))
            /\ broadcasts' = Append(broadcasts, msg)
            /\ spawned' = notifyListeners(services', onChange)
       ELSE IF msg.action = "deregister" /\ "service_id" \in DOMAIN msg
                /\ ScanHits(services, msg.service_id) # {}
       THEN \E hit \in ScanHits(services, msg.service_id) :
               /\ services' = Store(services, hit[1], RemoveAt(services[hit[1]], hit[2]))
               /\ broadcasts' = Append(broadcasts, msg)
               /\ spawned' = notifyListeners(services', onChange)
       ELSE /\ UNCHANGED <<services, broadcasts>>
            /\ spawned' = <<>>

\* NotifyMsg that calls notifyListeners for a message it drops as well.
NotifyMsgNotifiesOnDrop(msg) ==
    /\ regOp' = [op |-> "NotifyMsg", arg |-> msg, err |-> FALSE]
    /\ UNCHANGED <<broadcasts, onChange, poolVars>>
    /\ IF "garbage" \in DOMAIN msg \/ "action" \notin DOMAIN msg
       THEN /\ UNCHANGED services
            /\ spawned' = notifyListeners(services, onChange)
       ELSE IF msg.action = "register" /\ "instance" \in DOMAIN msg
       THEN /\ services' = Store(services, msg.instance.service,
                                 Upsert(Lookup(services, msg.instance.service), msg.instance))
            /\ spawned' = notifyListeners(services', onChange)
       ELSE IF msg.action = "deregister" /\ "service_id" \in DOMAIN msg
                /\ ScanHits(services, msg.service_id) # {}
       THEN \E hit \in ScanHits(services, msg.service_id) :
               /\ services' = Store(services, hit[1], RemoveAt(services[hit[1]], hit[2]))
               /\ spawned' = notifyListeners(services', onChange)
       ELSE /\ UNCHANGED services
            /\ spawned' = notifyListeners(services, onChange)

\* NotifyMsg: a delta received from a peer.  Nothing is queued for broadcast.
NotifyMsg(msg) ==
    /\ regOp' = [op |-> "NotifyMsg", arg |-> msg, err |-> FALSE]
    /\ UNCHANGED <<broadcasts, onChange, poolVars>>
    /\ IF "garbage" \in DOMAIN msg \/ "action" \notin DOMAIN msg
       THEN /\ UNCHANGED services
            /\ spawned' = <<>>
       ELSE IF msg.action = "register" /\ "instance" \in DOMAIN msg
       THEN /\ services' = Store(services, msg.instance.service,
                                 Upsert(Lookup(services, msg.instance.service), msg.instance))
            /\ spawned' = notifyListeners(services', onChange)
       ELSE IF msg.action = "deregister" /\ "service_id" \in DOMAIN msg
                /\ ScanHits(services, msg.service_id) # {}
       THEN \E hit \in ScanHits(services, msg.service_id) :
               /\ services' = Store(services, hit[1], RemoveAt(services[hit[1]], hit[2]))
               /\ spawned' = notifyListeners(services', onChange)
       ELSE /\ UNCHANGED services
            /\ spawned' = <<>>

\* The inner loop that leaves an instance the node holds as it is.
RECURSIVE MergeListKeepsLocal(_, _)
MergeListKeepsLocal(local, remote) ==
    IF remote = <<>> THEN local
    ELSE IF Matches(local, Head(remote).id) # {}
    THEN MergeListKeepsLocal(local, Tail(remote))
    ELSE MergeListKeepsLocal(Append(local, Head(remote)), Tail(remote))

\* The inner loop of MergeRemoteState: each remote instance is upserted.
RECURSIVE MergeList(_, _)
MergeList(local, remote) ==
    IF remote = <<>> THEN local
    ELSE MergeList(Upsert(local, Head(remote)), Tail(remote))

\* The outer loop of MergeRemoteState: a service the node does not hold takes
\* the remote list as it is, one it holds is merged instance by instance.
Merged(svcs, remote) ==
    [s \in (DOMAIN svcs) \cup (DOMAIN remote) |->
        IF s \notin DOMAIN remote THEN svcs[s]
        ELSE IF s \notin DOMAIN svcs THEN remote[s]
        ELSE MergeList(svcs[s], remote[s])]

\* The merge that calls notifyListeners only when it has changed the table.
MergeDecodedNotifiesOnChange(remoteServices) ==
    /\ services' = Merged(services, remoteServices)
    /\ spawned' = IF services' = services
                  THEN <<>>
                  ELSE notifyListeners(services', onChange)

\* MergeRemoteState once the buffer is decoded: the merge under the lock,
\* then notifyListeners, whatever the merge has done.
MergeDecoded(remoteServices) ==
    /\ services' = Merged(services, remoteServices)
    /\ spawned' = notifyListeners(services', onChange)

MergeRemoteState(buf) ==
    /\ regOp' = [op |-> "MergeRemoteState", arg |-> "state", err |-> FALSE]
    /\ UNCHANGED <<broadcasts, onChange, poolVars>>
    /\ IF "garbage" \in DOMAIN buf
       THEN /\ UNCHANGED services
            /\ spawned' = <<>>
       ELSE MergeDecoded(buf)

\* MergeRemoteState with a buffer that holds the LocalState of a peer.
MergeState(remoteServices) ==
    /\ regOp' = [op |-> "MergeRemoteState", arg |-> "state", err |-> FALSE]
    /\ UNCHANGED <<broadcasts, onChange, poolVars>>
    /\ MergeDecoded(remoteServices)

\* GetBroadcasts: the membership layer takes the oldest queued message.
GetBroadcasts ==
    /\ broadcasts # <<>>
    /\ broadcasts' = Tail(broadcasts)
    /\ spawned' = <<>>
    /\ regOp' = [op |-> "GetBroadcasts", arg |-> "queue", err |-> FALSE]
    /\ UNCHANGED <<services, onChange, poolVars>>

(***************************************************************************)
(* The registry of one node.                                               *)
(***************************************************************************)
\* discovery.New: an empty table, no listeners, an empty queue.
InitRegistry ==
    /\ services = <<>>
    /\ broadcasts = <<>>
    /\ onChange = <<>>
    /\ spawned = <<>>
    /\ regOp = [op |-> "New", arg |-> "new", err |-> FALSE]

(***************************************************************************)
(* The backend pools.                                                      *)
(***************************************************************************)
\* int64(^uint64(0) >> 1), the value LeastConnection.Next starts its minimum
\* at.  It is 2^63-1; TLC's integers end at 2^31-1, which stands for it here:
\* the counters of the model stay far below both.
MaxInt64 == 2147483647

\* The read-write mutex: a writer runs only while no caller is inside Next.
NoReader == \A c \in Callers : pc[c] = "idle"

\* Add that sets Active in both pool types.
AddSetsActive(b, act, conn) ==
    /\ NoReader
    /\ b \notin created
    /\ created' = created \cup {b}
    /\ connections' = [connections EXCEPT ![b] = conn]
    /\ active' = [active EXCEPT ![b] = TRUE]
    /\ backends' = Append(backends, b)
    /\ poolOp' = [op |-> "Add", arg |-> b, act |-> act]
    /\ UNCHANGED <<policy, current, pc, sel, regVars>>

\* Add, called with a Backend the caller has just created with the given
\* Active and Connections.  LeastConnection.Add sets Active; RoundRobin.Add
\* leaves it as it came.
Add(b, act, conn) ==
    /\ NoReader
    /\ b \notin created
    /\ created' = created \cup {b}
    /\ connections' = [connections EXCEPT ![b] = conn]
    /\ active' = [active EXCEPT ![b] = IF policy = "lc" THEN TRUE ELSE act]
    /\ backends' = Append(backends, b)
    /\ poolOp' = [op |-> "Add", arg |-> b, act |-> act]
    /\ UNCHANGED <<policy, current, pc, sel, regVars>>

\* The indices of the backends whose URL prints as url.
URLMatches(bs, url) == {k \in 1..Len(bs) : URLOf(bs[k]) = url}

\* Remove: the first backend with the URL goes, if there is one.
Remove(url) ==
    /\ NoReader
    /\ backends' = IF URLMatches(backends, url) # {}
                   THEN RemoveAt(backends, First(URLMatches(backends, url)))
                   ELSE backends
    /\ poolOp' = [op |-> "Remove", arg |-> url]
    /\ UNCHANGED <<policy, current, created, active, connections, pc, sel, regVars>>

MarkHealthy(b) ==
    /\ NoReader
    /\ b \in created
    /\ active' = [active EXCEPT ![b] = TRUE]
    /\ poolOp' = [op |-> "MarkHealthy", arg |-> b]
    /\ UNCHANGED <<policy, backends, current, created, connections, pc, sel, regVars>>

MarkUnhealthy(b) ==
    /\ NoReader
    /\ b \in created
    /\ active' = [active EXCEPT ![b] = FALSE]
    /\ poolOp' = [op |-> "MarkUnhealthy", arg |-> b]
    /\ UNCHANGED <<policy, backends, current, created, connections, pc, sel, regVars>>

\* The snapshot without its test of Active.
AllBackends(bs, act) == bs

\* RoundRobin.Next's snapshot: the active backends, in pool order.
ActiveBackends(bs, act) == SelectSeq(bs, LAMBDA b : act[b])

\* RRPick that halves the counter before it takes the remainder.
RRPickEveryOther(bs, act, n) ==
    ActiveBackends(bs, act)[((n \div 2) % Len(ActiveBackends(bs, act))) + 1]

\* RoundRobin.Next, given the counter value n the atomic add returned.
RRPick(bs, act, n) ==
    ActiveBackends(bs, act)[(n % Len(ActiveBackends(bs, act))) + 1]

\* The scan without its test of Active.
RECURSIVE LCScanAnyBackend(_, _, _, _, _, _)
LCScanAnyBackend(bs, act, conn, i, selected, minConnections) ==
    IF i > Len(bs) THEN selected
    ELSE IF conn[bs[i]] < minConnections
    THEN LCScanAnyBackend(bs, act, conn, i + 1, bs[i], conn[bs[i]])
    ELSE LCScanAnyBackend(bs, act, conn, i + 1, selected, minConnections)

\* The scan with <= for <: the last of the backends that tie is selected.
RECURSIVE LCScanLastOnTie(_, _, _, _, _, _)
LCScanLastOnTie(bs, act, conn, i, selected, minConnections) ==
    IF i > Len(bs) THEN selected
    ELSE IF act[bs[i]] /\ conn[bs[i]] <= minConnections
    THEN LCScanLastOnTie(bs, act, conn, i + 1, bs[i], conn[bs[i]])
    ELSE LCScanLastOnTie(bs, act, conn, i + 1, selected, minConnections)

\* LeastConnection.Next's scan from index i on, with the backend selected so
\* far and its counter.
RECURSIVE LCScan(_, _, _, _, _, _)
LCScan(bs, act, conn, i, selected, minConnections) ==
    IF i > Len(bs) THEN selected
    ELSE IF act[bs[i]] /\ conn[bs[i]] < minConnections
    THEN LCScan(bs, act, conn, i + 1, bs[i], conn[bs[i]])
    ELSE LCScan(bs, act, conn, i + 1, selected, minConnections)

\* Next up to its return statement: the read lock is taken and the backend
\* chosen.  RoundRobin adds to its counter only when it has an active backend.
NextSelect(c) ==
    /\ pc[c] = "idle"
    /\ pc' = [pc EXCEPT ![c] = "selected"]
    /\ IF policy = "rr"
       THEN IF backends = <<>> \/ ActiveBackends(backends, active) = <<>>
            THEN /\ sel' = [sel EXCEPT ![c] = NoValue]
                 /\ UNCHANGED current
            ELSE /\ current' = current + 1
                 /\ sel' = [sel EXCEPT ![c] = RRPick(backends, active, current')]
       ELSE /\ sel' = [sel EXCEPT ![c] =
                          LCScan(backends, active, connections, 1, NoValue, MaxInt64)]
            /\ UNCHANGED current
    /\ UNCHANGED <<policy, backends, created, active, connections, poolOp, regVars>>

\* Next's return: LeastConnection adds one to the selected backend's counter,
\* and the read lock is released.
NextReturn(c) ==
    /\ pc[c] = "selected"
    /\ pc' = [pc EXCEPT ![c] = "idle"]
    /\ sel' = [sel EXCEPT ![c] = NoValue]
    /\ connections' = IF policy = "lc" /\ sel[c] # NoValue
                      THEN [connections EXCEPT ![sel[c]] = @ + 1]
                      ELSE connections
    /\ UNCHANGED <<policy, backends, current, created, active, poolOp, regVars>>

\* LeastConnection.ReleaseConnection: an atomic add of -1, under no lock.
ReleaseConnection(b) ==
    /\ policy = "lc"
    /\ b \in created
    /\ connections' = [connections EXCEPT ![b] = @ - 1]
    /\ UNCHANGED <<policy, backends, current, created, active, pc, sel, poolOp, regVars>>

\* NewRoundRobin / NewLeastConnection: an empty pool.  No Backend exists yet;
\* the fields of an object not yet created are not read.
InitPool ==
    /\ policy \in {"rr", "lc"}
    /\ backends = <<>>
    /\ current = 0
    /\ created = {}
    /\ active = [b \in BackendObjs |-> FALSE]
    /\ connections = [b \in BackendObjs |-> 0]
    /\ pc = [c \in Callers |-> "idle"]
    /\ sel = [c \in Callers |-> NoValue]
    /\ poolOp = [op |-> "New", arg |-> NoValue]

(***************************************************************************)
(* The route table.  A Go string is the sequence of its characters, so     *)
(* that prefixes and suffixes are computed, not looked up.                 *)
(***************************************************************************)
\* strings.HasPrefix, strings.HasSuffix, strings.TrimPrefix and
\* strings.TrimSuffix.
HasPrefix(s, prefix) ==
    Len(prefix) <= Len(s) /\ SubSeq(s, 1, Len(prefix)) = prefix

HasSuffix(s, suffix) ==
    Len(suffix) <= Len(s) /\ SubSeq(s, Len(s) - Len(suffix) + 1, Len(s)) = suffix

TrimPrefix(s, prefix) ==
    IF HasPrefix(s, prefix) THEN SubSeq(s, Len(prefix) + 1, Len(s)) ELSE s

TrimSuffix(s, suffix) ==
    IF HasSuffix(s, suffix) THEN SubSeq(s, 1, Len(s) - Len(suffix)) ELSE s

\* The upper-case form of a letter of the method names below; every other
\* character is its own.
ToUpper(ch) ==
    CASE ch = "g" -> "G" [] ch = "e" -> "E" [] ch = "t" -> "T"
      [] ch = "p" -> "P" [] ch = "o" -> "O" [] ch = "s" -> "S"
      [] ch = "u" -> "U" [] OTHER -> ch

\* strings.EqualFold on such names: equal up to the case of each letter.
EqualFold(a, b) ==
    Len(a) = Len(b) /\ \A k \in 1..Len(a) : ToUpper(a[k]) = ToUpper(b[k])

\* What Match returns when no route qualifies: nil.
NoRoute == [none |-> TRUE]

\* trim that removes nothing.
trimNothing(s) == s

\* The closure trim of matchPath: one trailing slash goes, the root stays.
trim(s) == IF s = <<"/">> THEN s ELSE TrimSuffix(s, <<"/">>)

\* matchPath whose wildcard tests the prefix without its closing slash.
matchPathLoosePrefix(requestPath, routePath) ==
    IF HasSuffix(routePath, <<"*">>)
    THEN LET base == TrimSuffix(routePath, <<"*">>)
         IN IF HasSuffix(base, <<"/">>)
            THEN HasPrefix(requestPath, TrimSuffix(base, <<"/">>))
            ELSE HasPrefix(requestPath, base)
    ELSE trim(requestPath) = trim(routePath)

matchPath(requestPath, routePath) ==
    IF HasSuffix(routePath, <<"*">>)
    THEN LET base == TrimSuffix(routePath, <<"*">>)
         IN IF HasSuffix(base, <<"/">>)
            THEN \/ requestPath = TrimSuffix(base, <<"/">>)
                 \/ HasPrefix(requestPath, base)
            ELSE HasPrefix(requestPath, base)
    ELSE trim(requestPath) = trim(routePath)

matchMethod(requestMethod, allowedMethods) ==
    \/ Len(allowedMethods) = 0
    \/ \E k \in 1..Len(allowedMethods) : EqualFold(requestMethod, allowedMethods[k])

\* The indices of the routes that a request for path with method satisfies.
Qualifying(rs, path, method) ==
    {k \in 1..Len(rs) :
        matchPath(path, rs[k].Path) /\ matchMethod(method, rs[k].Methods)}

\* The scan that goes on after a route qualified: the last one is returned.
MatchRouteLast(rs, path, method) ==
    IF Qualifying(rs, path, method) = {} THEN NoRoute
    ELSE rs[CHOOSE k \in Qualifying(rs, path, method) :
                \A j \in Qualifying(rs, path, method) : j <= k]

\* The scan of Match: the first route that qualifies, or nil.
MatchRoute(rs, path, method) ==
    IF Qualifying(rs, path, method) = {} THEN NoRoute
    ELSE rs[First(Qualifying(rs, path, method))]

AddRoute(path, serviceName, methods) ==
    /\ routes' = Append(routes,
                        [Path |-> path, ServiceName |-> serviceName, Methods |-> methods])
    /\ rtOp' = [op |-> "AddRoute"]

Clear ==
    /\ routes' = <<>>
    /\ rtOp' = [op |-> "Clear"]

\* Match, called with a request for path with method.
Match(path, method) ==
    /\ rtOp' = [op |-> "Match", path |-> path, method |-> method,
                route |-> MatchRoute(routes, path, method)]
    /\ UNCHANGED routes

\* matchPath, applied to the request path and the pattern of a pending call.
ApplyMatchPath ==
    /\ rtOp.op = "call"
    /\ rtOp' = [op |-> "matchPath", requestPath |-> rtOp.requestPath,
                routePath |-> rtOp.routePath,
                match |-> matchPath(rtOp.requestPath, rtOp.routePath)]
    /\ UNCHANGED routes

\* router.New: no routes.
InitRouter ==
    /\ routes = <<>>
    /\ rtOp = [op |-> "New"]

(***************************************************************************)
(* The server: the data plane.  handleRequest reads the route table, the   *)
(* pool map and the pool one after the other, each under its own lock; a   *)
(* route is never removed and a pool is only ever replaced by a new object,*)
(* so what it reads is what one atomic step would read.                    *)
(***************************************************************************)
\* The status codes the server writes.
StatusOK == 200
StatusCreated == 201
StatusBadRequest == 400
StatusNotFound == 404
StatusMethodNotAllowed == 405
StatusInternalServerError == 500
StatusBadGateway == 502
StatusServiceUnavailable == 503
\* The status counted for a WebSocket session that was relayed.
StatusSwitchingProtocols == 101

\* The methods of a dynamic route.
DynamicMethods ==
    <<<<"G", "E", "T">>, <<"P", "O", "S", "T">>, <<"P", "U", "T">>,
      <<"D", "E", "L", "E", "T", "E">>, <<"P", "A", "T", "C", "H">>,
      <<"O", "P", "T", "I", "O", "N", "S">>>>

\* An address with which "http://address:port" is no URL: url.Parse fails.
BadAddr == "%zz"

\* fmt.Sprintf("http://%s:%d", instance.Address, instance.Port), parsed.
BackendURL(instance) == <<"http", instance.address, instance.port>>

\* strconv.Atoi: an optional sign and then decimal digits, at least one; the
\* value, or an error for every other string.  The strings of the model are
\* short, so that no value leaves the range of int.
Digits == <<"0", "1", "2", "3", "4", "5", "6", "7", "8", "9">>

IsDigit(ch) == \E d \in DOMAIN Digits : Digits[d] = ch

DigitValue(ch) == (CHOOSE d \in DOMAIN Digits : Digits[d] = ch) - 1

RECURSIVE ParseDigits(_, _)
ParseDigits(str, n) ==
    IF str = <<>> THEN n ELSE ParseDigits(Tail(str), 10 * n + DigitValue(Head(str)))

Atoi(str) ==
    LET signed == str # <<>> /\ Head(str) \in {"+", "-"}
        digits == IF signed THEN Tail(str) ELSE str
    IN IF digits = <<>> \/ \E i \in DOMAIN digits : ~IsDigit(digits[i])
       THEN [n |-> 0, err |-> TRUE]
       ELSE [n |-> IF signed /\ Head(str) = "-"
                   THEN 0 - ParseDigits(digits, 0)
                   ELSE ParseDigits(digits, 0),
             err |-> FALSE]

\* The weight of the loop of updateLoadBalancerBackends: 1, replaced by what
\* Atoi makes of Metadata["weight"] when the key exists and Atoi returns no
\* error.  An instance of the model has the field Metadata, the map itself,
\* only where a specification gives it one; without it the map is nil.
WeightOf(instance) ==
    IF "Metadata" \in DOMAIN instance /\ "weight" \in DOMAIN instance.Metadata
          /\ ~Atoi(instance.Metadata.weight).err
    THEN Atoi(instance.Metadata.weight).n
    ELSE 1

\* The loop that adds the Backends with Active left at its zero value.
RECURSIVE NewBackendsInactive(_)
NewBackendsInactive(instances) ==
    IF instances = <<>> THEN <<>>
    ELSE IF Head(instances).address = BadAddr THEN NewBackendsInactive(Tail(instances))
    ELSE <<[URL |-> BackendURL(Head(instances)), Weight |-> WeightOf(Head(instances)),
             Active |-> FALSE]>>
             \o NewBackendsInactive(Tail(instances))

\* The loop of updateLoadBalancerBackends: one Backend, active, per instance
\* whose URL parses, in the order of the instances.
RECURSIVE NewBackends(_)
NewBackends(instances) ==
    IF instances = <<>> THEN <<>>
    ELSE IF Head(instances).address = BadAddr THEN NewBackends(Tail(instances))
    ELSE <<[URL |-> BackendURL(Head(instances)), Weight |-> WeightOf(Head(instances)),
             Active |-> TRUE]>>
             \o NewBackends(Tail(instances))

\* The type switch of updateLoadBalancerBackends: the type of the new pool,
\* given the pools there are.  A service without a pool has just been given
\* a round-robin one.
NewPoolType(lbs, serviceName) ==
    IF serviceName \in DOMAIN lbs /\ lbs[serviceName].type = "lc" THEN "lc" ELSE "rr"

\* updateLoadBalancerBackends: a service seen for the first time gets a pool
\* and its route; the pool is then replaced by a new pool of its type made
\* from the instances.
updateLoadBalancerBackends(serviceName, instances) ==
    /\ IF serviceName \in DOMAIN loadBalancers
       THEN UNCHANGED routerVars
       ELSE AddRoute(<<"/">> \o serviceName \o <<"/", "*">>, serviceName, DynamicMethods)
    /\ loadBalancers' = Store(loadBalancers, serviceName,
                              [type |-> NewPoolType(loadBalancers, serviceName),
                               backends |-> NewBackends(instances), current |-> 0])
    /\ srvOp' = [op |-> "updateLoadBalancerBackends", serviceName |-> serviceName,
                 instances |-> instances]

\* The health checker's markUnhealthy and markHealthy for the k-th backend of
\* a service's pool: the pool is called only when the flag changes.
markUnhealthy(serviceName, k) ==
    /\ serviceName \in DOMAIN loadBalancers
    /\ k \in 1..Len(loadBalancers[serviceName].backends)
    /\ loadBalancers[serviceName].backends[k].Active
    /\ loadBalancers' = [loadBalancers EXCEPT ![serviceName].backends[k].Active = FALSE]
    /\ srvOp' = [op |-> "markUnhealthy", serviceName |-> serviceName]
    /\ UNCHANGED routerVars

markHealthy(serviceName, k) ==
    /\ serviceName \in DOMAIN loadBalancers
    /\ k \in 1..Len(loadBalancers[serviceName].backends)
    /\ ~loadBalancers[serviceName].backends[k].Active
    /\ loadBalancers' = [loadBalancers EXCEPT ![serviceName].backends[k].Active = TRUE]
    /\ srvOp' = [op |-> "markHealthy", serviceName |-> serviceName]
    /\ UNCHANGED routerVars

\* The positions of a pool's backends, and the Active flag at each: the pool
\* as RoundRobin.Next reads it.
Positions(lb) == [k \in 1..Len(lb.backends) |-> k]

ActiveAt(lb) == [k \in 1..Len(lb.backends) |-> lb.backends[k].Active]

\* Whether lb.Next() returns nil.
NextIsNil(lb) == ActiveBackends(Positions(lb), ActiveAt(lb)) = <<>>

\* The backend lb.Next() returns otherwise.
NextBackend(lb) ==
    lb.backends[RRPick(Positions(lb), ActiveAt(lb), lb.current + 1)]

\* The rewrite that takes the service prefix off a second time.
rewritePathStripsTwice(originalPath, serviceName) ==
    LET servicePath == <<"/">> \o serviceName
        strippedPath == TrimPrefix(TrimPrefix(originalPath, servicePath), servicePath)
    IN IF strippedPath = <<>> THEN <<"/">> ELSE strippedPath

\* The prefix strip of handleRequest: the path the backend is sent.
rewritePath(originalPath, serviceName) ==
    LET servicePath == <<"/">> \o serviceName
    IN IF HasPrefix(originalPath, servicePath)
       THEN IF TrimPrefix(originalPath, servicePath) = <<>>
            THEN <<"/">>
            ELSE TrimPrefix(originalPath, servicePath)
       ELSE originalPath

\* handleRequest for a request with the given path and method, that asks for
\* a WebSocket upgrade or not; the backend it is sent to fails at transport
\* level (upstreamErr) or answers with upstreamStatus.  status is what the
\* handler writes to the client: the error paths and the reverse proxy write
\* one, the WebSocket branch writes none.  metric is the status counted in
\* RequestsTotal; tried lists the backends the request was sent to.
handleRequest(path, method, ws, upstreamErr, upstreamStatus) ==
    /\ Match(path, method)
    /\ LET route == rtOp'.route
           req == [op |-> "handleRequest", path |-> path, method |-> method, ws |-> ws,
                   upstreamErr |-> upstreamErr]
           answer(code) == [status |-> code, metric |-> code, tried |-> <<>>]
       IN IF route = NoRoute
          THEN /\ srvOp' = req @@ answer(StatusNotFound)
               /\ UNCHANGED loadBalancers
          ELSE IF route.ServiceName \notin DOMAIN loadBalancers
          THEN /\ srvOp' = req @@ answer(StatusInternalServerError)
               /\ UNCHANGED loadBalancers
          ELSE IF NextIsNil(loadBalancers[route.ServiceName])
          THEN /\ srvOp' = req @@ answer(StatusServiceUnavailable)
               /\ UNCHANGED loadBalancers
          ELSE LET lb == loadBalancers[route.ServiceName]
                   sent == [tried |-> <<NextBackend(lb).URL>>,
                            sentPath |-> rewritePath(path, route.ServiceName),
                            serviceName |-> route.ServiceName]
               IN /\ loadBalancers' =
                        [loadBalancers EXCEPT ![route.ServiceName].current = @ + 1]
                  /\ srvOp' =
                        IF ws
                        THEN IF upstreamErr
                             THEN req @@ sent @@ [metric |-> StatusBadGateway]
                             ELSE req @@ sent @@ [metric |-> StatusSwitchingProtocols]
                        ELSE IF upstreamErr
                        THEN req @@ sent @@ [status |-> StatusBadGateway,
                                             metric |-> StatusBadGateway]
                        ELSE req @@ sent @@ [status |-> upstreamStatus,
                                             metric |-> upstreamStatus]

(***************************************************************************)
(* The server: the control API.  A request body that is no JSON is the     *)
(* record Garbage, a JSON object the record of its keys.                   *)
(***************************************************************************)
\* var reservedServiceNames
reservedServiceNames ==
    {<<"a", "p", "i">>, <<"_", "f", "l", "u", "x", "g", "a", "t", "e">>,
     <<"h", "e", "a", "l", "t", "h">>, <<"m", "e", "t", "r", "i", "c", "s">>,
     <<"v", "1">>}

\* isReservedServiceName without the rule for the leading underscore.
isReservedListedOnly(name) == name \in reservedServiceNames

isReservedServiceName(name) ==
    name \in reservedServiceNames \/ HasPrefix(name, <<"_">>)

\* json.Decode into a ServiceInstance: a key the object lacks leaves the
\* field at its zero value.
DecodeInstance(body) ==
    [id |-> IF "id" \in DOMAIN body THEN body.id ELSE "",
     service |-> IF "service" \in DOMAIN body THEN body.service ELSE <<>>,
     address |-> IF "address" \in DOMAIN body THEN body.address ELSE "",
     port |-> IF "port" \in DOMAIN body THEN body.port ELSE 0]

\* handleServiceRegistration for a request with the given method and body.
handleServiceRegistration(method, body) ==
    LET req == [op |-> "handleServiceRegistration", method |-> method, body |-> body]
        instance == DecodeInstance(body)
    IN IF method # "POST"
       THEN /\ srvOp' = req @@ [status |-> StatusMethodNotAllowed]
            /\ UNCHANGED <<regVars, poolVars>>
       ELSE IF "garbage" \in DOMAIN body
       THEN /\ srvOp' = req @@ [status |-> StatusBadRequest]
            /\ UNCHANGED <<regVars, poolVars>>
       ELSE IF \/ instance.id = "" \/ instance.service = <<>>
               \/ instance.address = "" \/ instance.port = 0
       THEN /\ srvOp' = req @@ [status |-> StatusBadRequest]
            /\ UNCHANGED <<regVars, poolVars>>
       ELSE IF isReservedServiceName(instance.service)
       THEN /\ srvOp' = req @@ [status |-> StatusBadRequest]
            /\ UNCHANGED <<regVars, poolVars>>
       ELSE /\ Register(instance)
            /\ srvOp' = req @@ [status |-> StatusCreated]

\* handleServiceDeregistration for a request with the given method and the
\* given id in its query ("" when the query has none).
handleServiceDeregistration(method, serviceID) ==
    LET req == [op |-> "handleServiceDeregistration", method |-> method, id |-> serviceID]
    IN IF method # "DELETE"
       THEN /\ srvOp' = req @@ [status |-> StatusMethodNotAllowed]
            /\ UNCHANGED <<regVars, poolVars>>
       ELSE IF serviceID = ""
       THEN /\ srvOp' = req @@ [status |-> StatusBadRequest]
            /\ UNCHANGED <<regVars, poolVars>>
       ELSE /\ Deregister(serviceID)
            /\ srvOp' = req @@ [status |-> IF regOp'.err
                                           THEN StatusInternalServerError
                                           ELSE StatusOK]

\* proxy.New: no pool; nothing has been called.
InitProxy ==
    /\ loadBalancers = <<>>
    /\ srvOp = [op |-> "New"]

\* router.New and proxy.New.
InitServer == InitRouter /\ InitProxy

(***************************************************************************)
(* The wiring.  The listener the server subscribes runs in a goroutine of  *)
(* its own for every change of the registry; it walks the table it was     *)
(* handed, in the order Go ranges over the map, and calls                  *)
(* updateLoadBalancerBackends for each service, each call under s.mu.      *)
(* AddEndpoint has no caller in the sources at hand: the health checker is *)
(* taken to probe the backends of the pools there are.                     *)
(***************************************************************************)
\* subscribeToServiceChanges: the server's listener is subscribed.
subscribeToServiceChanges ==
    /\ onChange = <<>>
    /\ Subscribe
    /\ srvOp' = [op |-> "subscribeToServiceChanges"]
    /\ UNCHANGED <<routerVars, loadBalancers>>

\* The goroutines a registry call has started, each with the table it was
\* handed and the services it has still to walk; a listener handed an empty
\* table has nothing to do.
Started(goroutines) ==
    SelectSeq([k \in 1..Len(goroutines) |->
                  [table |-> goroutines[k].table, todo |-> DOMAIN goroutines[k].table]],
              LAMBDA t : t.todo # {})

\* One turn of the loop of the listener in goroutine g: the call of
\* updateLoadBalancerBackends for one service of the table; the goroutine
\* ends with its last service.
listenerStep(g, serviceName) ==
    /\ g \in 1..Len(tasks)
    /\ serviceName \in tasks[g].todo
    /\ updateLoadBalancerBackends(serviceName, tasks[g].table[serviceName])
    /\ tasks' = IF tasks[g].todo = {serviceName}
                THEN RemoveAt(tasks, g)
                ELSE [tasks EXCEPT ![g].todo = @ \ {serviceName}]

\* What a probe can bring: a response with a status, or no response, the
\* client's Do having failed at transport level or on its timeout.
Probes ==
    [err : {"none"}, status : {StatusOK, 204, 301, StatusInternalServerError}]
        \cup [err : {"transport", "timeout"}, status : {0}]

\* The test of check that takes every 2xx status for the expected one.
ExpectedAny2xx(resp) == resp.err = "none" /\ resp.status \in 200..299

\* The test of check: there is a response and its status is ExpectedCode,
\* which AddEndpoint sets to 200.
Expected(resp) == resp.err = "none" /\ resp.status = StatusOK

\* HealthChecker.check for the k-th backend of a service's pool, with what
\* the probe brought: markHealthy and markUnhealthy call the pool's
\* MarkHealthy and MarkUnhealthy, which write the flag, only when the flag
\* is not as the probe found it.  Probes of one backend do not overlap: the
\* client's timeout is shorter than the interval between them.
check(serviceName, k, resp) ==
    /\ serviceName \in DOMAIN loadBalancers
    /\ k \in 1..Len(loadBalancers[serviceName].backends)
    /\ LET backend == loadBalancers[serviceName].backends[k]
           healthy == Expected(resp)
       IN /\ IF backend.Active = healthy
             THEN /\ srvOp' = [op |-> "check", serviceName |-> serviceName, k |-> k,
                               resp |-> resp, called |-> "none"]
                  /\ UNCHANGED loadBalancers
             ELSE /\ srvOp' = [op |-> "check", serviceName |-> serviceName, k |-> k,
                               resp |-> resp,
                               called |-> IF healthy THEN "MarkHealthy" ELSE "MarkUnhealthy"]
                  /\ loadBalancers' =
                        [loadBalancers EXCEPT ![serviceName].backends[k].Active = healthy]
          /\ marked' = IF healthy
                       THEN marked \ {<<serviceName, backend.URL>>}
                       ELSE marked \cup {<<serviceName, backend.URL>>}
    /\ UNCHANGED routerVars

(***************************************************************************)
(* The cluster: the registries of several nodes and the membership layer   *)
(* between them.  The layer carries every delta a node queues to every     *)
(* other node, between two nodes in the order the deltas were queued, and  *)
(* may lose it on the way; a push/pull exchange hands each of two nodes    *)
(* the other's LocalState.  The listeners of the nodes are left out: they  *)
(* do not touch the registry.                                              *)
(***************************************************************************)
Nodes == {"n1", "n2"}

\* The instances registered in a cluster: i1 at two addresses, and i2.
ClusterInstances == {i \in Instances : i.service = "s1"}

\* The tables NotifyMsg can leave of svcs: one, but for a deregistration of
\* an id that several services hold.
Received(svcs, msg) ==
    IF "garbage" \in DOMAIN msg \/ "action" \notin DOMAIN msg
    THEN {svcs}
    ELSE IF msg.action = "register" /\ "instance" \in DOMAIN msg
    THEN {Store(svcs, msg.instance.service,
                Upsert(Lookup(svcs, msg.instance.service), msg.instance))}
    ELSE IF msg.action = "deregister" /\ "service_id" \in DOMAIN msg
             /\ ScanHits(svcs, msg.service_id) # {}
    THEN {Store(svcs, hit[1], RemoveAt(svcs[hit[1]], hit[2])) :
             hit \in ScanHits(svcs, msg.service_id)}
    ELSE {svcs}

\* QueueBroadcast on node n: the delta sets out for every other node.
Queued(n, delta) ==
    [l \in Nodes \X Nodes |->
        IF l[1] = n /\ l[2] # n THEN Append(links[l], delta) ELSE links[l]]

\* Register, called on node n.
RegisterOn(n, instance) ==
    /\ tables' = [tables EXCEPT ![n] =
                     Store(@, instance.service, Upsert(Lookup(@, instance.service), instance))]
    /\ links' = Queued(n, RegisterDelta(instance))
    /\ ledger' = Append(ledger, [node |-> n, delta |-> RegisterDelta(instance)])
    /\ clOp' = [op |-> "Register", node |-> n]
    /\ UNCHANGED lost

\* Deregister, called on node n.
DeregisterOn(n, serviceID) ==
    /\ IF ScanHits(tables[n], serviceID) # {}
       THEN \E hit \in ScanHits(tables[n], serviceID) :
               /\ tables' = [tables EXCEPT ![n] =
                                Store(@, hit[1], RemoveAt(@[hit[1]], hit[2]))]
               /\ links' = Queued(n, DeregisterDelta(serviceID))
               /\ ledger' = Append(ledger, [node |-> n, delta |-> DeregisterDelta(serviceID)])
               /\ clOp' = [op |-> "Deregister", node |-> n, err |-> FALSE]
       ELSE /\ UNCHANGED <<tables, links, ledger>>
            /\ clOp' = [op |-> "Deregister", node |-> n, err |-> TRUE]
    /\ UNCHANGED lost

\* The oldest delta on its way from node a to node b arrives: NotifyMsg on b.
Deliver(a, b) ==
    /\ links[<<a, b>>] # <<>>
    /\ \E t \in Received(tables[b], Head(links[<<a, b>>])) :
          tables' = [tables EXCEPT ![b] = t]
    /\ links' = [links EXCEPT ![<<a, b>>] = Tail(@)]
    /\ clOp' = [op |-> "NotifyMsg", node |-> b]
    /\ UNCHANGED <<ledger, lost>>

\* The oldest delta on its way from node a to node b is lost.
Lose(a, b) ==
    /\ links[<<a, b>>] # <<>>
    /\ links' = [links EXCEPT ![<<a, b>>] = Tail(@)]
    /\ lost' = TRUE
    /\ clOp' = [op |-> "Lose", node |-> b]
    /\ UNCHANGED <<tables, ledger>>

\* A push/pull exchange of nodes a and b: each sends its LocalState, and
\* each merges what it is sent.
PushPull(a, b) ==
    /\ a # b
    /\ tables' = [tables EXCEPT ![a] = Merged(tables[a], tables[b]),
                                ![b] = Merged(tables[b], tables[a])]
    /\ clOp' = [op |-> "PushPull", node |-> a, peer |-> b]
    /\ UNCHANGED <<links, ledger, lost>>

\* discovery.New on every node: empty tables, nothing on its way.
InitCluster ==
    /\ tables = [n \in Nodes |-> <<>>]
    /\ links = [l \in Nodes \X Nodes |-> <<>>]
    /\ ledger = <<>>
    /\ lost = FALSE
    /\ clOp = [op |-> "New"]

\* No listener goroutine is running; the health checker has found nothing.
InitWire ==
    /\ tasks = <<>>
    /\ marked = {}

\* No Metadata map exists; nothing has been handed out.
InitCopy ==
    /\ heap = <<>>
    /\ handed = [op |-> "New"]

\* proxy.New: no proxy object, no lock held, nothing under way.
InitPlane ==
    /\ mu = [writer |-> Nobody]
    /\ tlsMu = [writer |-> Nobody]
    /\ upd = [pc |-> "idle"]
    /\ reqs = <<>>
    /\ reverseProxies = <<>>
    /\ made = 0
    /\ gauge = <<>>
    /\ cfg = [pc |-> "idle"]
    /\ retired = <<>>

InitOther == InitCluster /\ InitWire /\ InitCopy /\ InitPlane

(***************************************************************************)
(* The callers of the registry.  In these runs a ServiceInstance has the   *)
(* field metadata: the reference of its Metadata map in heap, 0 for a nil  *)
(* map.  A struct copied by assignment or by copy() keeps the reference.   *)
(* handed is what the caller holds: a list (from GetInstances) or a table  *)
(* (from GetAllServices, or the argument of a listener), in a slice and a  *)
(* map of its own.                                                         *)
(***************************************************************************)
\* GetInstances: make and copy of the service's list.
GetInstances(service) ==
    /\ handed' = [op |-> "GetInstances", kind |-> "list", service |-> service,
                  value |-> Lookup(services, service)]
    /\ UNCHANGED <<regVars, poolVars, heap>>

\* GetAllServices: a new map, with make and copy of every list.
GetAllServices ==
    /\ handed' = [op |-> "GetAllServices", kind |-> "table", value |-> services]
    /\ UNCHANGED <<regVars, poolVars, heap>>

\* The k-th goroutine the last registry call started runs its listener,
\* which is handed the table notifyListeners made.
listenerCalled(k) ==
    /\ k \in 1..Len(spawned)
    /\ handed' = [op |-> "listener", kind |-> "table", value |-> spawned[k].table]
    /\ UNCHANGED <<regVars, poolVars, heap>>

\* The list of a service in what the caller holds.
HasList(service) ==
    /\ "kind" \in DOMAIN handed
    /\ IF handed.kind = "list"
       THEN service = handed.service
       ELSE service \in DOMAIN handed.value

HandedList(service) ==
    IF handed.kind = "list" THEN handed.value ELSE handed.value[service]

WithList(service, l) ==
    IF handed.kind = "list"
    THEN [handed EXCEPT !.value = l]
    ELSE [handed EXCEPT !.value[service] = l]

\* The caller assigns an element of a list it holds: list[k] = instance.
callerReplaces(service, k, instance) ==
    /\ HasList(service)
    /\ k \in 1..Len(HandedList(service))
    /\ handed' = [WithList(service, [HandedList(service) EXCEPT ![k] = instance])
                     EXCEPT !.op = "replace"]
    /\ UNCHANGED <<regVars, poolVars, heap>>

\* The caller removes an element: append(list[:k], list[k+1:]...).
callerRemoves(service, k) ==
    /\ HasList(service)
    /\ k \in 1..Len(HandedList(service))
    /\ handed' = [WithList(service, RemoveAt(HandedList(service), k))
                     EXCEPT !.op = "remove"]
    /\ UNCHANGED <<regVars, poolVars, heap>>

\* The caller writes an entry of an element's map: list[k].Metadata[key] =
\* value.  (A write to a nil map panics in the caller.)
callerSetsMetadata(service, k, key, value) ==
    /\ HasList(service)
    /\ k \in 1..Len(HandedList(service))
    /\ HandedList(service)[k].metadata # 0
    /\ heap' = [heap EXCEPT ![HandedList(service)[k].metadata] = Store(@, key, value)]
    /\ handed' = [handed EXCEPT !.op = "setMetadata"]
    /\ UNCHANGED <<regVars, poolVars>>

\* The register handler with a body that has a metadata object: the decoder
\* allocates the map, the instance is registered with it.
RegisterDecoded(instance, metadata) ==
    /\ Len(heap) < MaxMaps
    /\ heap' = Append(heap, metadata)
    /\ Register(instance @@ [metadata |-> Len(heap) + 1])
    /\ handed' = [op |-> "Register"]

(***************************************************************************)
(* Configuration: package config, setDefaults and Validate.  A duration is *)
(* its number of milliseconds, a string a sequence of characters, the *TLS *)
(* pointer a sequence that is empty when the pointer is nil.               *)
(***************************************************************************)
Millisecond == 1
Second == 1000 * Millisecond

\* strings.ToLower on the letters the log level and format values are
\* written with; every other character is kept.
Upper == <<"A", "B", "D", "E", "F", "G", "I", "J", "N", "O", "R", "S", "T", "U", "W", "X">>
Lower == <<"a", "b", "d", "e", "f", "g", "i", "j", "n", "o", "r", "s", "t", "u", "w", "x">>
ToLower(str) ==
    [i \in DOMAIN str |->
        IF \E k \in DOMAIN Upper : Upper[k] = str[i]
        THEN Lower[CHOOSE k \in DOMAIN Upper : Upper[k] = str[i]]
        ELSE str[i]]

validLevels ==
    {<<"d", "e", "b", "u", "g">>, <<"i", "n", "f", "o">>,
     <<"w", "a", "r", "n">>, <<"e", "r", "r", "o", "r">>}
validFormats == {<<"t", "e", "x", "t">>, <<"j", "s", "o", "n">>}

setDefaults(c) ==
    [c EXCEPT
        !.Server.Port = IF @ = 0 THEN 8080 ELSE @,
        !.Server.MetricsPort = IF @ = 0 THEN 9090 ELSE @,
        !.Server.GossipPort = IF @ = 0 THEN 7946 ELSE @,
        !.HealthCheck.Interval = IF @ = 0 THEN 10 * Second ELSE @,
        !.HealthCheck.Timeout = IF @ = 0 THEN 5 * Second ELSE @,
        !.Timeouts.Read = IF @ = 0 THEN 30 * Second ELSE @,
        !.Timeouts.Write = IF @ = 0 THEN 30 * Second ELSE @,
        !.Timeouts.Idle = IF @ = 0 THEN 120 * Second ELSE @,
        !.Logging.Level = IF @ = <<>> THEN <<"i", "n", "f", "o">> ELSE @,
        !.Logging.Format = IF @ = <<>> THEN <<"t", "e", "x", "t">> ELSE @]

\* Validate that lets a health-check timeout equal to the interval pass.
ValidateTimeoutUpToInterval(c) ==
    IF c.Server.Port < 1 \/ c.Server.Port > 65535 THEN "server port"
    ELSE IF c.Server.MetricsPort < 1 \/ c.Server.MetricsPort > 65535 THEN "metrics port"
    ELSE IF c.Server.GossipPort < 1 \/ c.Server.GossipPort > 65535 THEN "gossip port"
    ELSE IF c.Server.Port = c.Server.MetricsPort THEN "server and metrics"
    ELSE IF c.Server.Port = c.Server.GossipPort THEN "server and gossip"
    ELSE IF c.Server.MetricsPort = c.Server.GossipPort THEN "metrics and gossip"
    ELSE IF c.HealthCheck.Interval < Second THEN "interval"
    ELSE IF c.HealthCheck.Timeout < Second THEN "timeout"
    ELSE IF c.HealthCheck.Timeout > c.HealthCheck.Interval THEN "timeout and interval"
    ELSE IF c.Timeouts.Read < Second THEN "read timeout"
    ELSE IF c.Timeouts.Write < Second THEN "write timeout"
    ELSE IF c.Timeouts.Idle < Second THEN "idle timeout"
    ELSE IF ToLower(c.Logging.Level) \notin validLevels THEN "log level"
    ELSE IF ToLower(c.Logging.Format) \notin validFormats THEN "log format"
    ELSE IF c.TLS # <<>> /\ c.TLS[1].CertFile = "" THEN "cert_file"
    ELSE IF c.TLS # <<>> /\ c.TLS[1].KeyFile = "" THEN "key_file"
    ELSE "nil"

\* Validate: the error returned, named by what it complains of; "nil" when
\* no test fails.  The tests are made in this order and the first that fails
\* returns.
Validate(c) ==
    IF c.Server.Port < 1 \/ c.Server.Port > 65535 THEN "server port"
    ELSE IF c.Server.MetricsPort < 1 \/ c.Server.MetricsPort > 65535 THEN "metrics port"
    ELSE IF c.Server.GossipPort < 1 \/ c.Server.GossipPort > 65535 THEN "gossip port"
    ELSE IF c.Server.Port = c.Server.MetricsPort THEN "server and metrics"
    ELSE IF c.Server.Port = c.Server.GossipPort THEN "server and gossip"
    ELSE IF c.Server.MetricsPort = c.Server.GossipPort THEN "metrics and gossip"
    ELSE IF c.HealthCheck.Interval < Second THEN "interval"
    ELSE IF c.HealthCheck.Timeout < Second THEN "timeout"
    ELSE IF c.HealthCheck.Timeout >= c.HealthCheck.Interval THEN "timeout and interval"
    ELSE IF c.Timeouts.Read < Second THEN "read timeout"
    ELSE IF c.Timeouts.Write < Second THEN "write timeout"
    ELSE IF c.Timeouts.Idle < Second THEN "idle timeout"
    ELSE IF ToLower(c.Logging.Level) \notin validLevels THEN "log level"
    ELSE IF ToLower(c.Logging.Format) \notin validFormats THEN "log format"
    ELSE IF c.TLS # <<>> /\ c.TLS[1].CertFile = "" THEN "cert_file"
    ELSE IF c.TLS # <<>> /\ c.TLS[1].KeyFile = "" THEN "key_file"
    ELSE "nil"

(***************************************************************************)
(* The server at the grain of its locks.  handleRequest and the wiring run *)
(* in goroutines of their own; a step is what one of them does between two *)
(* lock operations.  A section under a read lock only reads, so it is one  *)
(* step.  A request holds the pool it looked up by reference: at 0 it is   *)
(* the pool in the map, otherwise the pool at that place of retired.       *)
(***************************************************************************)
\* RLock that does not wait for the writer.
RLockIgnoresWriter(m) == TRUE

\* RWMutex.RLock returns: nobody holds the lock for writing.
RLock(m) == m.writer = Nobody

\* RWMutex.Lock returns: nobody holds the lock.  Readers are inside for one
\* step only.
Lock(m) == m.writer = Nobody

\* What is left alone by every step of the data plane and the wiring.
restVars == <<regVars, poolVars, picks, srvOp, clusterVars, wireVars, copyVars>>

\* The pool of the type: NewRoundRobin() or NewLeastConnection().
NewPool(type) == [type |-> type, backends |-> <<>>, current |-> 0]

\* updateLoadBalancerBackends, called by a listener goroutine, has taken
\* Server.mu.
updateLock(serviceName, instances) ==
    /\ upd.pc = "idle"
    /\ Lock(mu)
    /\ mu' = [writer |-> [by |-> "updateLoadBalancerBackends"]]
    /\ upd' = [pc |-> "exists", serviceName |-> serviceName, instances |-> instances]
    /\ UNCHANGED <<restVars, routerVars, loadBalancers, tlsMu, reqs, reverseProxies,
                   made, gauge, cfg, retired>>

\* The test for the pool: a service without one is given an empty pool; the
\* new pool is created, of the type of the one in the map.
updateNewPool ==
    /\ upd.pc = "exists"
    /\ IF upd.serviceName \in DOMAIN loadBalancers
       THEN /\ upd' = [upd EXCEPT !.pc = "Add"] @@
                         [newLB |-> NewPool(NewPoolType(loadBalancers, upd.serviceName)),
                          k |-> 1]
            /\ UNCHANGED loadBalancers
       ELSE /\ upd' = [upd EXCEPT !.pc = "AddRoute"]
            /\ loadBalancers' = Store(loadBalancers, upd.serviceName, NewPool("rr"))
    /\ UNCHANGED <<restVars, routerVars, mu, tlsMu, reqs, reverseProxies, made, gauge,
                   cfg, retired>>

\* The step after the first pool of a service that adds no route.
updateAddRouteAddsNone ==
    /\ upd.pc = "AddRoute"
    /\ upd' = [upd EXCEPT !.pc = "Add"] @@
                 [newLB |-> NewPool(NewPoolType(loadBalancers, upd.serviceName)), k |-> 1]
    /\ UNCHANGED <<restVars, routerVars, loadBalancers, mu, tlsMu, reqs, reverseProxies,
                   made, gauge, cfg, retired>>

\* The route of a service seen for the first time.
updateAddRoute ==
    /\ upd.pc = "AddRoute"
    /\ AddRoute(<<"/">> \o upd.serviceName \o <<"/", "*">>, upd.serviceName, DynamicMethods)
    /\ upd' = [upd EXCEPT !.pc = "Add"] @@
                 [newLB |-> NewPool(NewPoolType(loadBalancers, upd.serviceName)), k |-> 1]
    /\ UNCHANGED <<restVars, loadBalancers, mu, tlsMu, reqs, reverseProxies, made,
                   gauge, cfg, retired>>

\* One turn of the loop: the backend of the k-th instance is added to the
\* new pool, which nobody else can reach yet.
updateAdd ==
    /\ upd.pc = "Add"
    /\ upd.k <= Len(upd.instances)
    /\ upd' = [upd EXCEPT !.k = @ + 1,
                          !.newLB.backends = @ \o NewBackends(<<upd.instances[upd.k]>>)]
    /\ UNCHANGED <<restVars, routerVars, loadBalancers, mu, tlsMu, reqs, reverseProxies,
                   made, gauge, cfg, retired>>

\* The requests under way are a bag: they are told apart by where they are
\* and what they hold, not by a name.
Replace(bag, old, new) == (bag (-) SetToBag({old})) (+) SetToBag({new})

\* The requests that hold the pool the map has for the service.
Holders(serviceName) ==
    {req \in BagToSet(reqs) : /\ req.pc = "Next"
                              /\ req.serviceName = serviceName
                              /\ req.at = 0}

\* The requests, with the holders of the service's pool holding the pool at
\* place n of retired instead.
Retire(serviceName, n) ==
    LET moved(req) == IF req \in Holders(serviceName) THEN [req EXCEPT !.at = n] ELSE req
        after == {moved(req) : req \in BagToSet(reqs)}
    IN [new \in after |->
           CopiesIn(CHOOSE req \in BagToSet(reqs) : moved(req) = new, reqs)]

\* The new pool is stored in the map and Server.mu released.  The pool it
\* replaces lives on for the requests that hold it.
updateStore ==
    /\ upd.pc = "Add"
    /\ upd.k > Len(upd.instances)
    /\ loadBalancers' = Store(loadBalancers, upd.serviceName, upd.newLB)
    /\ IF Holders(upd.serviceName) = {}
       THEN UNCHANGED <<retired, reqs>>
       ELSE /\ retired' = Append(retired, loadBalancers[upd.serviceName])
            /\ reqs' = Retire(upd.serviceName, Len(retired) + 1)
    /\ mu' = [writer |-> Nobody]
    /\ upd' = [pc |-> "idle"]
    /\ UNCHANGED <<restVars, routerVars, tlsMu, reverseProxies, made, gauge, cfg>>

\* A request arrives: a GET for the path.  Whether it asks for a WebSocket
\* upgrade is read after the backend is chosen, and is decided there.
arrive(path) ==
    /\ BagCardinality(reqs) < MaxReqs
    /\ reqs' = reqs (+) SetToBag({[pc |-> "Match", path |-> path]})
    /\ UNCHANGED <<restVars, routerVars, loadBalancers, mu, tlsMu, upd, reverseProxies,
                   made, gauge, cfg, retired>>

\* handleRequest up to the pool map: Match, and 404 when no route matches.
\* A request keeps what the rest of the handler reads and, when it is done,
\* what it answered.
match(req) ==
    /\ req.pc = "Match"
    /\ LET route == MatchRoute(routes, req.path, <<"G", "E", "T">>)
       IN reqs' = Replace(reqs, req,
                          IF route = NoRoute
                          THEN [pc |-> "done", status |-> StatusNotFound]
                          ELSE [pc |-> "loadBalancers",
                                serviceName |-> route.ServiceName])
    /\ UNCHANGED <<restVars, routerVars, loadBalancers, mu, tlsMu, upd, reverseProxies,
                   made, gauge, cfg, retired>>

\* The read of the pool map under the read lock: 500 when the service of the
\* route has no pool.  got is the backends of the pool as it is found.
lookup(req) ==
    /\ req.pc = "loadBalancers"
    /\ RLock(mu)
    /\ reqs' = Replace(reqs, req,
                       IF req.serviceName \notin DOMAIN loadBalancers
                       THEN [pc |-> "done", status |-> StatusInternalServerError]
                       ELSE [pc |-> "Next", serviceName |-> req.serviceName, at |-> 0,
                             got |-> loadBalancers[req.serviceName].backends])
    /\ UNCHANGED <<restVars, routerVars, loadBalancers, mu, tlsMu, upd, reverseProxies,
                   made, gauge, cfg, retired>>

\* The gauge of a backend URL, which is 0 until it is first touched.
Gauge(g, url) == IF url \in DOMAIN g THEN g[url] ELSE 0

\* lb.Next() on the pool the request holds: 503 when it returns nil; else
\* the gauge of the backend goes up and the decrement is deferred.
next(req, ws) ==
    /\ req.pc = "Next"
    /\ LET lb == IF req.at = 0 THEN loadBalancers[req.serviceName] ELSE retired[req.at]
       IN IF NextIsNil(lb)
          THEN /\ reqs' = Replace(reqs, req,
                                  [pc |-> "done", status |-> StatusServiceUnavailable])
               /\ UNCHANGED <<loadBalancers, retired, gauge>>
          ELSE /\ reqs' = Replace(reqs, req,
                                  [pc |-> IF ws THEN "handleWebSocket"
                                          ELSE "getOrCreateProxy",
                                   got |-> req.got, backend |-> NextBackend(lb)])
               /\ IF req.at = 0
                  THEN /\ loadBalancers' =
                             [loadBalancers EXCEPT ![req.serviceName].current = @ + 1]
                       /\ UNCHANGED retired
                  ELSE /\ retired' = [retired EXCEPT ![req.at].current = @ + 1]
                       /\ UNCHANGED loadBalancers
               /\ gauge' = Store(gauge, NextBackend(lb).URL,
                                 Gauge(gauge, NextBackend(lb).URL) + 1)
    /\ UNCHANGED <<restVars, routerVars, mu, tlsMu, upd, reverseProxies, made, cfg>>

\* The return of handleRequest after the defer statement: the request ends
\* with the given outcome and the deferred decrement runs.
return(req, outcome) ==
    /\ reqs' = Replace(reqs, req, [pc |-> "done"] @@ outcome)
    /\ gauge' = [gauge EXCEPT ![req.backend.URL] = @ - 1]

\* The WebSocket branch that leaves the gauge as it is when the dial fails.
webSocketKeepsGaugeOnError(req, dialErr) ==
    /\ req.pc = "handleWebSocket"
    /\ IF dialErr
       THEN /\ reqs' = Replace(reqs, req, [pc |-> "done", metric |-> StatusBadGateway])
            /\ UNCHANGED gauge
       ELSE return(req, [metric |-> StatusSwitchingProtocols])
    /\ UNCHANGED <<restVars, routerVars, loadBalancers, mu, tlsMu, upd, reverseProxies,
                   made, cfg, retired>>

\* The WebSocket branch: handleWebSocket fails at the dial, or relays until
\* one side closes; no status is written by the handler.
webSocket(req, dialErr) ==
    /\ req.pc = "handleWebSocket"
    /\ return(req, [metric |-> IF dialErr THEN StatusBadGateway
                               ELSE StatusSwitchingProtocols])
    /\ UNCHANGED <<restVars, routerVars, loadBalancers, mu, tlsMu, upd, reverseProxies,
                   made, cfg, retired>>

\* getOrCreateProxy, first half: the read of reverseProxies under the read
\* lock.
getProxy(req) ==
    /\ req.pc = "getOrCreateProxy"
    /\ RLock(mu)
    /\ reqs' = Replace(reqs, req,
                       IF req.backend.URL \in DOMAIN reverseProxies
                       THEN [req EXCEPT !.pc = "ServeHTTP"] @@
                               [proxy |-> reverseProxies[req.backend.URL]]
                       ELSE [req EXCEPT !.pc = "NewSingleHostReverseProxy"])
    /\ UNCHANGED <<restVars, routerVars, loadBalancers, mu, tlsMu, upd, reverseProxies,
                   made, gauge, cfg, retired>>

\* getOrCreateProxy, second half, after a miss: under the write lock a proxy
\* object is created and stored; the map is not read again.
createProxy(req) ==
    /\ req.pc = "NewSingleHostReverseProxy"
    /\ Lock(mu)
    /\ made' = made + 1
    /\ reverseProxies' = Store(reverseProxies, req.backend.URL, made')
    /\ reqs' = Replace(reqs, req, [req EXCEPT !.pc = "ServeHTTP"] @@ [proxy |-> made'])
    /\ UNCHANGED <<restVars, routerVars, loadBalancers, mu, tlsMu, upd, gauge, cfg,
                   retired>>

\* proxy.ServeHTTP: the backend answers, or the transport fails and the error
\* handler writes 502.
serveHTTP(req, upstream) ==
    /\ req.pc = "ServeHTTP"
    /\ return(req, [status |-> IF upstream.err THEN StatusBadGateway
                               ELSE upstream.status])
    /\ UNCHANGED <<restVars, routerVars, loadBalancers, mu, tlsMu, upd, reverseProxies,
                   made, cfg, retired>>

\* What a reload brings for TLS: no section, a key pair that loads, one that
\* does not.
TLSReloads == {"nil", "loads", "fails"}

\* Server.UpdateConfig has taken Server.mu and stored the configuration.
updateConfigLock(tls) ==
    /\ cfg.pc = "idle"
    /\ Lock(mu)
    /\ mu' = [writer |-> [by |-> "UpdateConfig"]]
    /\ cfg' = [pc |-> "tlsManager.UpdateConfig", tls |-> tls]
    /\ UNCHANGED <<restVars, routerVars, loadBalancers, tlsMu, upd, reqs, reverseProxies,
                   made, gauge, retired>>

\* The rest of Server.UpdateConfig, lock operation by lock operation.
\* TLSManager.UpdateConfig takes TLSManager.mu; when the key pair does not
\* load it returns at once, releasing it.  Otherwise it goes on to
\* notifyListeners, whose GetTLSConfig asks for the read lock of the same
\* mutex; the listeners are told and the locks released after that.
updateConfigRun ==
    /\ cfg.pc # "idle"
    /\ IF cfg.pc = "tlsManager.UpdateConfig"
       THEN /\ Lock(tlsMu)
            /\ IF cfg.tls = "fails"
               THEN /\ cfg' = [cfg EXCEPT !.pc = "Unlock"]
                    /\ UNCHANGED tlsMu
               ELSE /\ cfg' = [cfg EXCEPT !.pc = "GetTLSConfig"]
                    /\ tlsMu' = [writer |-> [by |-> "UpdateConfig"]]
            /\ UNCHANGED mu
       ELSE IF cfg.pc = "GetTLSConfig"
       THEN /\ RLock(tlsMu)
            /\ cfg' = [cfg EXCEPT !.pc = "Unlock"]
            /\ tlsMu' = [writer |-> Nobody]
            /\ UNCHANGED mu
       ELSE /\ cfg' = [pc |-> "idle"]
            /\ mu' = [writer |-> Nobody]
            /\ UNCHANGED tlsMu
    /\ UNCHANGED <<restVars, routerVars, loadBalancers, upd, reqs, reverseProxies, made,
                   gauge, retired>>

(***************************************************************************)
(* Specifications.                                                         *)
(***************************************************************************)
\* The registry of one node; the pool is left as constructed.
Init ==
    InitRegistry /\ InitPool /\ policy = "rr" /\ picks = <<>> /\ InitServer /\ InitOther

Next ==
    \/ \E instance \in Instances : Register(instance) /\ UNCHANGED <<picks, srvVars, otherVars>>
    \/ \E serviceID \in Ids : Deregister(serviceID) /\ UNCHANGED <<picks, srvVars, otherVars>>
    \/ Subscribe /\ UNCHANGED <<picks, srvVars, otherVars>>
    \/ \E msg \in Msgs : NotifyMsg(msg) /\ UNCHANGED <<picks, srvVars, otherVars>>
    \/ \E buf \in RemoteStates \cup {Garbage} : MergeRemoteState(buf) /\ UNCHANGED <<picks, srvVars, otherVars>>
    \/ GetBroadcasts /\ UNCHANGED <<picks, srvVars, otherVars>>

Spec == Init /\ [][Next]_vars

\* One pool of either type, its callers and the callers' Backend objects; the
\* registry is left as constructed.
InitP == InitRegistry /\ InitPool /\ picks = <<>> /\ InitServer /\ InitOther

NextP ==
    \/ \E b \in BackendObjs, act \in BOOLEAN, conn \in 0..MaxInitConn :
          Add(b, act, conn) /\ UNCHANGED <<picks, srvVars, otherVars>>
    \/ \E url \in URLs : Remove(url) /\ UNCHANGED <<picks, srvVars, otherVars>>
    \/ \E b \in BackendObjs : MarkHealthy(b) /\ UNCHANGED <<picks, srvVars, otherVars>>
    \/ \E b \in BackendObjs : MarkUnhealthy(b) /\ UNCHANGED <<picks, srvVars, otherVars>>
    \/ \E c \in Callers :
          /\ current < MaxCurrent
          /\ \A b \in created : connections[b] < MaxConn
          /\ NextSelect(c)
          /\ UNCHANGED <<picks, srvVars, otherVars>>
    \/ \E c \in Callers : NextReturn(c) /\ UNCHANGED <<picks, srvVars, otherVars>>
    \/ \E b \in BackendObjs :
          connections[b] > 0 /\ ReleaseConnection(b) /\ UNCHANGED <<picks, srvVars, otherVars>>

SpecPool == InitP /\ [][NextP]_vars

\* Round-robin over a pool that is not modified: K active backends, the
\* counter at any value it can have, and only calls of Next from then on.
\* picks records each selection at the atomic add that decided it.
InjectiveSeqs(S) ==
    {q \in UNION {[1..n -> S] : n \in 1..Cardinality(S)} :
        \A j, k \in 1..Len(q) : j # k => q[j] # q[k]}

InitF ==
    /\ InitRegistry
    /\ policy = "rr"
    /\ backends \in InjectiveSeqs(BackendObjs)
    /\ current \in 0..MaxCurrent
    /\ created = {backends[k] : k \in 1..Len(backends)}
    /\ active = [b \in BackendObjs |-> b \in created]
    /\ connections = [b \in BackendObjs |-> 0]
    /\ pc = [c \in Callers |-> "idle"]
    /\ sel = [c \in Callers |-> NoValue]
    /\ poolOp = [op |-> "New", arg |-> NoValue]
    /\ picks = <<>>
    /\ InitServer
    /\ InitOther

NextF ==
    \/ \E c \in Callers :
          /\ Len(picks) < Rounds * Len(backends)
          /\ NextSelect(c)
          /\ picks' = Append(picks, sel'[c])
          /\ UNCHANGED <<srvVars, otherVars>>
    \/ \E c \in Callers : NextReturn(c) /\ UNCHANGED <<picks, srvVars, otherVars>>

SpecFair == InitF /\ [][NextF]_vars

\* The characters of the request paths, and the paths: every string of them
\* that begins with a slash, up to the longest length.
PathChars == {"/", "s", "2", "x"}

Paths ==
    {q \in UNION {[1..n -> PathChars] : n \in 1..MaxPathLen} : q[1] = "/"}

\* Route patterns: wildcards with and without a slash before the star, and
\* exact paths.
Patterns ==
    {<<"/", "s", "/", "*">>, <<"/", "*">>, <<"/", "s", "*">>,
     <<"/", "s">>, <<"/", "s", "/">>, <<"/">>, <<"/", "s", "/", "x">>,
     <<"/", "s", "/", "/">>}

\* matchPath as a function of its two arguments: a call with any request
\* path and any pattern is pending, and the one step applies the function.
InitM ==
    /\ InitRegistry /\ InitPool /\ policy = "rr" /\ picks = <<>>
    /\ routes = <<>>
    /\ rtOp \in [op : {"call"}, requestPath : Paths, routePath : Patterns]
    /\ InitProxy
    /\ InitOther

NextM ==
    \/ ApplyMatchPath /\ UNCHANGED <<regVars, poolVars, picks, proxyVars, otherVars>>

SpecPath == InitM /\ [][NextM]_vars

\* The route table: routes are added and cleared, and requests matched.
RoutePatterns == {<<"/", "s", "/", "*">>, <<"/", "s", "/", "x">>}
RouteServices == {<<"s">>, <<"x">>}
MethodLists ==
    {<<>>, <<<<"P", "O", "S", "T">>>>, <<<<"p", "u", "t">>, <<"g", "e", "t">>>>}
RequestPaths == {<<"/", "s", "/", "x">>, <<"/", "s">>, <<"/", "x">>}
RequestMethods == {<<"G", "E", "T">>, <<"p", "o", "s", "t">>, <<"P", "U", "T">>}

NextR ==
    \/ \E path \in RoutePatterns, serviceName \in RouteServices, methods \in MethodLists :
          /\ Len(routes) < MaxRoutes
          /\ AddRoute(path, serviceName, methods)
          /\ UNCHANGED <<regVars, poolVars, picks, proxyVars, otherVars>>
    \/ Clear /\ UNCHANGED <<regVars, poolVars, picks, proxyVars, otherVars>>
    \/ \E path \in RequestPaths, method \in RequestMethods :
          Match(path, method) /\ UNCHANGED <<regVars, poolVars, picks, proxyVars, otherVars>>

SpecRouter == Init /\ [][NextR]_vars

\* The data plane of one server.  The listener the server subscribes calls
\* updateLoadBalancerBackends with the instances of a service; the health
\* checker flips backends; requests arrive.
SrvNames == {<<"s">>, <<"s", "2">>}

\* The instance lists a registry update brings for one service.
SrvInstanceLists ==
    {<<>>,
     <<[address |-> "a1", port |-> 9001]>>,
     <<[address |-> "a1", port |-> 9001], [address |-> "a2", port |-> 9001]>>,
     <<[address |-> BadAddr, port |-> 9001]>>}

SrvPaths ==
    {<<"/", "s", "/", "x">>, <<"/", "s">>, <<"/", "s", "/">>,
     <<"/", "s", "/", "s", "/", "x">>, <<"/", "s", "2", "/", "x">>, <<"/", "x">>}

\* The requests: a GET for every path, and a TRACE, which no dynamic route
\* admits.
SrvRequests ==
    [path : SrvPaths, method : {<<"G", "E", "T">>}]
        \cup {[path |-> <<"/", "s", "/", "x">>, method |-> <<"T", "R", "A", "C", "E">>]}

\* What the backend does with a request it is sent: a transport error, or an
\* answer with a status of its own.
Upstreams ==
    {[err |-> TRUE, status |-> StatusBadGateway],
     [err |-> FALSE, status |-> StatusOK],
     [err |-> FALSE, status |-> StatusNotFound]}

\* The sum of the counters of the pools.
RECURSIVE Dispatched(_)
Dispatched(lbs) ==
    IF DOMAIN lbs = {} THEN 0
    ELSE LET s == CHOOSE x \in DOMAIN lbs : TRUE
         IN lbs[s].current + Dispatched([x \in DOMAIN lbs \ {s} |-> lbs[x]])

NextS ==
    \/ \E serviceName \in SrvNames, instances \in SrvInstanceLists :
          /\ updateLoadBalancerBackends(serviceName, instances)
          /\ UNCHANGED <<regVars, poolVars, picks, otherVars>>
    \/ \E serviceName \in SrvNames, k \in 1..2 :
          markUnhealthy(serviceName, k) /\ UNCHANGED <<regVars, poolVars, picks, otherVars>>
    \/ \E serviceName \in SrvNames, k \in 1..2 :
          markHealthy(serviceName, k) /\ UNCHANGED <<regVars, poolVars, picks, otherVars>>
    \/ \E r \in SrvRequests, ws \in BOOLEAN, upstream \in Upstreams :
          /\ Dispatched(loadBalancers) < MaxDispatch
          /\ handleRequest(r.path, r.method, ws, upstream.err, upstream.status)
          /\ UNCHANGED <<regVars, poolVars, picks, otherVars>>

SpecProxy == Init /\ [][NextS]_vars

\* The control plane of one node: registrations and deregistrations arrive
\* at the control API, deltas arrive from peers, listeners subscribe and the
\* membership layer takes queued messages.
ApiInstance(id, service, port) ==
    [id |-> id, service |-> service, address |-> "a1", port |-> port]

\* Bodies the handler accepts, ...
ApiAccepted ==
    {ApiInstance("i1", <<"s">>, 9001), ApiInstance("i2", <<"s">>, 9001),
     ApiInstance("i1", <<"x">>, 9001), ApiInstance("i1", <<"s">>, 65536),
     ApiInstance("i1", <<"s">>, -1)}

\* ... bodies with a required field empty, zero or not there, ...
ApiIncomplete ==
    {ApiInstance("", <<"s">>, 9001), ApiInstance("i1", <<>>, 9001),
     [id |-> "i1", service |-> <<"s">>, address |-> "", port |-> 9001],
     ApiInstance("i1", <<"s">>, 0),
     [id |-> "i1", service |-> <<"s">>, address |-> "a1"],
     [service |-> <<"s">>, address |-> "a1", port |-> 9001]}

\* ... and bodies that name a reserved service.
ApiReserved ==
    {ApiInstance("i1", name, 9001) :
        name \in reservedServiceNames \cup {<<"_", "x">>}}

ApiRegistrations ==
    [method : {"POST"}, body : ApiAccepted \cup ApiIncomplete \cup ApiReserved \cup {Garbage}]
        \cup {[method |-> "GET", body |-> ApiInstance("i2", <<"s">>, 9001)]}

ApiDeregistrations ==
    [method : {"DELETE"}, id : {"", "i1", "i2", "i3"}]
        \cup [method : {"GET", "POST"}, id : {"i1"}]

\* The deltas peers send: an instance with port 0, and a deregistration.
ApiMsgs == {RegisterDelta(ApiInstance("i2", <<"s">>, 0)), DeregisterDelta("i1")}

NextA ==
    \/ \E r \in ApiRegistrations :
          handleServiceRegistration(r.method, r.body)
              /\ UNCHANGED <<picks, routerVars, loadBalancers, otherVars>>
    \/ \E r \in ApiDeregistrations :
          handleServiceDeregistration(r.method, r.id)
              /\ UNCHANGED <<picks, routerVars, loadBalancers, otherVars>>
    \/ \E msg \in ApiMsgs :
          /\ NotifyMsg(msg)
          /\ srvOp' = [op |-> "NotifyMsg"]
          /\ UNCHANGED <<picks, routerVars, loadBalancers, otherVars>>
    \/ /\ Subscribe
       /\ srvOp' = [op |-> "Subscribe"]
       /\ UNCHANGED <<picks, routerVars, loadBalancers, otherVars>>
    \/ /\ GetBroadcasts
       /\ srvOp' = [op |-> "GetBroadcasts"]
       /\ UNCHANGED <<picks, routerVars, loadBalancers, otherVars>>

SpecApi == Init /\ [][NextA]_vars

\* MergeRemoteState as a function of the node's table and the state it is
\* handed: a call with any table a node can hold and any state a peer can
\* send is pending; the first step makes the call, the second makes it again
\* with the same state.  srvOp keeps the call's argument and the table the
\* first call found.
InitG ==
    /\ services \in RemoteStates
    /\ broadcasts = <<>>
    /\ onChange = <<1>>
    /\ spawned = <<>>
    /\ regOp = [op |-> "New", arg |-> "new", err |-> FALSE]
    /\ InitPool /\ policy = "rr" /\ picks = <<>>
    /\ InitRouter
    /\ loadBalancers = <<>>
    /\ srvOp \in [op : {"call"}, buf : RemoteStates \cup {Garbage}]
    /\ InitOther

NextG ==
    \/ /\ srvOp.op = "call"
       /\ MergeRemoteState(srvOp.buf)
       /\ srvOp' = [op |-> "MergeRemoteState", buf |-> srvOp.buf, local |-> services]
       /\ UNCHANGED <<picks, routerVars, loadBalancers, otherVars>>
    \/ /\ srvOp.op = "MergeRemoteState"
       /\ MergeRemoteState(srvOp.buf)
       /\ srvOp' = [op |-> "again", buf |-> srvOp.buf, local |-> srvOp.local]
       /\ UNCHANGED <<picks, routerVars, loadBalancers, otherVars>>

SpecMerge == InitG /\ [][NextG]_vars

\* A cluster of nodes: calls of Register and Deregister on any node, the
\* membership layer delivering or losing deltas, and push/pull exchanges.
NextC ==
    \/ \E n \in Nodes, instance \in ClusterInstances :
          /\ Len(ledger) < MaxMutations
          /\ RegisterOn(n, instance)
          /\ UNCHANGED <<regVars, poolVars, picks, srvVars, wireVars, copyVars, planeVars>>
    \/ \E n \in Nodes, serviceID \in Ids :
          /\ Len(ledger) < MaxMutations
          /\ DeregisterOn(n, serviceID)
          /\ UNCHANGED <<regVars, poolVars, picks, srvVars, wireVars, copyVars, planeVars>>
    \/ \E a, b \in Nodes :
          Deliver(a, b) /\ UNCHANGED <<regVars, poolVars, picks, srvVars, wireVars, copyVars, planeVars>>
    \/ \E a, b \in Nodes :
          Lose(a, b) /\ UNCHANGED <<regVars, poolVars, picks, srvVars, wireVars, copyVars, planeVars>>
    \/ \E a, b \in Nodes :
          PushPull(a, b) /\ UNCHANGED <<regVars, poolVars, picks, srvVars, wireVars, copyVars, planeVars>>

SpecCluster == Init /\ [][NextC]_vars

\* One node with its server: registrations and deregistrations arrive at the
\* control API, a delta arrives from a peer, the listener's goroutines walk
\* their tables, requests arrive.  Start subscribes the listener before it
\* serves, so the handlers run with the listener subscribed; a delta may
\* arrive before.
WireInstance(id, service, address) ==
    [id |-> id, service |-> service, address |-> address, port |-> 9001]

\* An instance of the service s.
WireBodies == {WireInstance("i1", <<"s">>, "a1")}

\* What a peer sends: an instance of a service with a leading underscore.
WireMsgs == {RegisterDelta(WireInstance("i3", <<"_", "x">>, "a1"))}

WireRequests == {<<"/", "s", "/", "x">>, <<"/", "_", "x", "/", "x">>}

NextW ==
    \/ /\ subscribeToServiceChanges
       /\ UNCHANGED <<picks, tasks, marked, clusterVars, copyVars, planeVars>>
    \/ \E body \in WireBodies :
          /\ onChange # <<>>
          /\ Len(tasks) < MaxTasks
          /\ handleServiceRegistration("POST", body)
          /\ tasks' = tasks \o Started(spawned')
          /\ UNCHANGED <<picks, routerVars, loadBalancers, marked, clusterVars, copyVars, planeVars>>
    \/ \E serviceID \in {"i1"} :
          /\ onChange # <<>>
          /\ Len(tasks) < MaxTasks
          /\ handleServiceDeregistration("DELETE", serviceID)
          /\ tasks' = tasks \o Started(spawned')
          /\ UNCHANGED <<picks, routerVars, loadBalancers, marked, clusterVars, copyVars, planeVars>>
    \/ \E msg \in WireMsgs :
          /\ Len(tasks) < MaxTasks
          /\ NotifyMsg(msg)
          /\ srvOp' = [op |-> "NotifyMsg"]
          /\ tasks' = tasks \o Started(spawned')
          /\ UNCHANGED <<picks, routerVars, loadBalancers, marked, clusterVars, copyVars, planeVars>>
    \/ /\ GetBroadcasts
       /\ srvOp' = [op |-> "GetBroadcasts"]
       /\ UNCHANGED <<picks, routerVars, loadBalancers, tasks, marked, clusterVars, copyVars, planeVars>>
    \/ \E g \in 1..MaxTasks, serviceName \in {<<"s">>, <<"_", "x">>} :
          /\ listenerStep(g, serviceName)
          /\ UNCHANGED <<regVars, poolVars, picks, marked, clusterVars, copyVars, planeVars>>
    \/ \E path \in WireRequests :
          /\ onChange # <<>>
          /\ Dispatched(loadBalancers) < MaxDispatch
          /\ handleRequest(path, <<"G", "E", "T">>, FALSE, FALSE, StatusOK)
          /\ UNCHANGED <<regVars, poolVars, picks, tasks, marked, clusterVars, copyVars, planeVars>>

SpecWire == Init /\ [][NextW]_vars

\* One server with its health checker: the listener rebuilds the pool of
\* service s when an instance beside the first is registered or
\* deregistered, the health checker probes the backends of the pool,
\* requests for the service arrive.
HealthLists ==
    {<<[address |-> "a1", port |-> 9001]>>,
     <<[address |-> "a1", port |-> 9001], [address |-> "a2", port |-> 9001]>>}

NextH ==
    \/ \E instances \in HealthLists :
          /\ updateLoadBalancerBackends(<<"s">>, instances)
          /\ UNCHANGED <<regVars, poolVars, picks, otherVars>>
    \/ \E k \in 1..2, resp \in Probes :
          /\ check(<<"s">>, k, resp)
          /\ UNCHANGED <<regVars, poolVars, picks, tasks, clusterVars, copyVars, planeVars>>
    \/ \E upstream \in Upstreams :
          /\ Dispatched(loadBalancers) < MaxDispatch
          /\ handleRequest(<<"/", "s", "/", "x">>, <<"G", "E", "T">>, FALSE,
                           upstream.err, upstream.status)
          /\ UNCHANGED <<regVars, poolVars, picks, otherVars>>

SpecHealth == Init /\ [][NextH]_vars

\* One node and the callers of its registry: instances of service s are
\* registered with a Metadata map or without one and deregistered, a
\* listener subscribes, the membership layer takes queued messages; callers
\* read, listeners are handed tables, and they change what they hold.
CopyInstances ==
    {[id |-> id, service |-> <<"s">>, address |-> "a1", port |-> 9001] : id \in {"i1", "i2"}}

NextK ==
    \/ \E instance \in CopyInstances :
          /\ RegisterDecoded(instance, [weight |-> "1"])
          /\ UNCHANGED <<picks, srvVars, clusterVars, wireVars, planeVars>>
    \/ \E instance \in CopyInstances :
          /\ Register(instance @@ [metadata |-> 0])
          /\ handed' = [op |-> "Register"]
          /\ UNCHANGED <<picks, srvVars, clusterVars, wireVars, heap, planeVars>>
    \/ \E serviceID \in {"i1", "i2"} :
          /\ Deregister(serviceID)
          /\ handed' = [op |-> "Deregister"]
          /\ UNCHANGED <<picks, srvVars, clusterVars, wireVars, heap, planeVars>>
    \/ /\ Subscribe
       /\ handed' = [op |-> "Subscribe"]
       /\ UNCHANGED <<picks, srvVars, clusterVars, wireVars, heap, planeVars>>
    \/ /\ GetBroadcasts
       /\ handed' = [op |-> "GetBroadcasts"]
       /\ UNCHANGED <<picks, srvVars, clusterVars, wireVars, heap, planeVars>>
    \/ \E service \in {<<"s">>, <<"x">>} :
          GetInstances(service) /\ UNCHANGED <<picks, srvVars, clusterVars, wireVars, planeVars>>
    \/ GetAllServices /\ UNCHANGED <<picks, srvVars, clusterVars, wireVars, planeVars>>
    \/ \E k \in 1..MaxSubs :
          listenerCalled(k) /\ UNCHANGED <<picks, srvVars, clusterVars, wireVars, planeVars>>
    \/ \E service \in {<<"s">>}, k \in 1..2 :
          /\ callerReplaces(service, k,
                            [id |-> "i3", service |-> <<"x">>, address |-> "a2",
                             port |-> 9002, metadata |-> 0])
          /\ UNCHANGED <<picks, srvVars, clusterVars, wireVars, planeVars>>
    \/ \E service \in {<<"s">>}, k \in 1..2 :
          callerRemoves(service, k) /\ UNCHANGED <<picks, srvVars, clusterVars, wireVars, planeVars>>
    \/ \E service \in {<<"s">>}, k \in 1..2 :
          /\ callerSetsMetadata(service, k, "weight", "9")
          /\ UNCHANGED <<picks, srvVars, clusterVars, wireVars, planeVars>>

SpecCopy == Init /\ [][NextK]_vars

\* A node that joins a cluster.  list.Join, inside discovery.New, exchanges
\* the full state with the seed: the node merges the seed's table before
\* Start has subscribed the listener.  From then on the membership layer
\* repeats the exchange every PushPullInterval; the registry of the seed
\* does not change, so what the node is handed is what it holds.
JoinStates ==
    {(<<"s">> :> <<WireInstance("i1", <<"s">>, "a1")>>),
     (<<"s">> :> <<WireInstance("i1", <<"s">>, "a1"), WireInstance("i2", <<"s">>, "a2")>>),
     (<<"s">> :> <<WireInstance("i1", <<"s">>, "a1")>>)
         @@ (<<"s", "2">> :> <<WireInstance("i2", <<"s", "2">>, "a2")>>)}

Join ==
    /\ srvOp.op = "New"
    /\ \E remoteServices \in JoinStates : MergeState(remoteServices)
    /\ srvOp' = [op |-> "Join"]
    /\ tasks' = tasks \o Started(spawned')
    /\ UNCHANGED <<picks, routerVars, loadBalancers, marked, clusterVars, copyVars, planeVars>>

StartAfterJoin ==
    /\ srvOp.op # "New"
    /\ subscribeToServiceChanges
    /\ UNCHANGED <<picks, tasks, marked, clusterVars, copyVars, planeVars>>

pushPull ==
    /\ srvOp.op # "New"
    /\ Len(tasks) < MaxTasks
    /\ MergeState(services)
    /\ srvOp' = [op |-> "pushPull"]
    /\ tasks' = tasks \o Started(spawned')
    /\ UNCHANGED <<picks, routerVars, loadBalancers, marked, clusterVars, copyVars, planeVars>>

listenerRuns ==
    \E g \in 1..MaxTasks, serviceName \in {<<"s">>, <<"s", "2">>} :
       /\ listenerStep(g, serviceName)
       /\ UNCHANGED <<regVars, poolVars, picks, marked, clusterVars, copyVars, planeVars>>

NextJ ==
    \/ Join
    \/ StartAfterJoin
    \/ pushPull
    \/ listenerRuns
    \/ \E path \in {<<"/", "s", "/", "x">>, <<"/", "s", "2", "/", "x">>} :
          /\ onChange # <<>>
          /\ Dispatched(loadBalancers) < MaxDispatch
          /\ handleRequest(path, <<"G", "E", "T">>, FALSE, FALSE, StatusOK)
          /\ UNCHANGED <<regVars, poolVars, picks, tasks, marked, clusterVars, copyVars,
                         planeVars>>

\* The node is started and Start subscribes; the membership layer's timer
\* keeps firing; a goroutine that was started runs.
SpecJoin ==
    /\ Init /\ [][NextJ]_vars
    /\ WF_vars(Join) /\ WF_vars(StartAfterJoin) /\ WF_vars(pushPull) /\ WF_vars(listenerRuns)

\* Load of a configuration file: the decoded Config, then setDefaults, then
\* Validate.  The files: the default configuration with one section written
\* in every way, and every choice of a good or a bad value per section.
DefaultConfig ==
    [Server |-> [Port |-> 0, MetricsPort |-> 0, GossipPort |-> 0],
     HealthCheck |-> [Interval |-> 0, Timeout |-> 0],
     Timeouts |-> [Read |-> 0, Write |-> 0, Idle |-> 0],
     Logging |-> [Level |-> <<>>, Format |-> <<>>],
     TLS |-> <<>>]

ServerSections ==
    [Port : {-1, 0, 1, 9090, 65536}, MetricsPort : {0, 1, 7946, 65535, 65536},
     GossipPort : {-1, 0, 1, 8080, 65536}]
HealthSections ==
    [Interval : {0, 500 * Millisecond, Second, 5 * Second, 10 * Second},
     Timeout : {-1 * Second, 0, 999 * Millisecond, Second, 5 * Second, 10 * Second}]
TimeoutSections ==
    [Read : {0, 999 * Millisecond, Second}, Write : {0, 1, 30 * Second},
     Idle : {-1 * Second, 0, Second}]
LoggingSections ==
    [Level : {<<>>, <<"i", "n", "f", "o">>, <<"W", "A", "R", "N">>,
              <<"E", "r", "r", "o", "r">>, <<"d", "e", "b", "u", "g">>,
              <<"i", "n", "f", "o", "s">>, <<"t", "e", "x", "t">>},
     Format : {<<>>, <<"J", "S", "O", "N">>, <<"t", "e", "x", "t">>,
               <<"x", "m", "l">>, <<"i", "n", "f", "o">>}]
TLSSections ==
    {<<>>} \cup {<<t>> : t \in [CertFile : {"", "cert.pem"}, KeyFile : {"", "key.pem"}]}

Configs ==
    {[DefaultConfig EXCEPT !.Server = s] : s \in ServerSections}
        \cup {[DefaultConfig EXCEPT !.HealthCheck = h] : h \in HealthSections}
        \cup {[DefaultConfig EXCEPT !.Timeouts = t] : t \in TimeoutSections}
        \cup {[DefaultConfig EXCEPT !.Logging = l] : l \in LoggingSections}
        \cup {[DefaultConfig EXCEPT !.TLS = t] : t \in TLSSections}
        \cup [Server : {[Port |-> 443, MetricsPort |-> 0, GossipPort |-> 0],
                        [Port |-> 7946, MetricsPort |-> 0, GossipPort |-> 0]},
              HealthCheck : {[Interval |-> 2 * Second, Timeout |-> Second],
                             [Interval |-> 3 * Second, Timeout |-> 0]},
              Timeouts : {[Read |-> Second, Write |-> Second, Idle |-> Second],
                          [Read |-> 0, Write |-> 0, Idle |-> 1]},
              Logging : {[Level |-> <<"D", "e", "b", "u", "g">>, Format |-> <<>>],
                         [Level |-> <<>>, Format |-> <<"y", "a", "m", "l">>]},
              TLS : {<<>>, <<[CertFile |-> "cert.pem", KeyFile |-> ""]>>}]

InitL ==
    /\ InitRegistry /\ InitPool /\ picks = <<>>
    /\ InitRouter
    /\ loadBalancers = <<>>
    /\ srvOp \in [op : {"Unmarshal"}, c : Configs]
    /\ InitOther

NextL ==
    \/ /\ srvOp.op = "Unmarshal"
       /\ srvOp' = [op |-> "setDefaults", file |-> srvOp.c, c |-> setDefaults(srvOp.c)]
       /\ UNCHANGED <<regVars, poolVars, picks, routerVars, loadBalancers, otherVars>>
    \/ /\ srvOp.op = "setDefaults"
       /\ srvOp' = [op |-> "Validate", file |-> srvOp.file, c |-> srvOp.c,
                    err |-> Validate(srvOp.c)]
       /\ UNCHANGED <<regVars, poolVars, picks, routerVars, loadBalancers, otherVars>>

SpecConfig == InitL /\ [][NextL]_vars

\* The listener is handed instances of service s that carry a Metadata map:
\* no map, a map without the key, and the key with a string of every kind.
WeightStrings ==
    {<<>>, <<"1">>, <<"5">>, <<"0">>, <<"0", "7">>, <<"1", "0">>, <<"+", "2">>,
     <<"-", "3">>, <<"-", "0">>, <<"-">>, <<"x">>, <<"1", ".", "5">>, <<" ", "5">>,
     <<"5", "k">>}

MetadataMaps ==
    {<<>>, [zone |-> <<"a">>]} \cup {[weight |-> w] : w \in WeightStrings}
        \cup {[weight |-> <<"3">>, zone |-> <<"a">>]}

WeightedInstances(id, address) ==
    {[id |-> id, service |-> <<"s">>, address |-> address, port |-> 9001]}
        \cup {[id |-> id, service |-> <<"s">>, address |-> address, port |-> 9001,
               Metadata |-> m] : m \in MetadataMaps}

WeightedLists ==
    {<<i>> : i \in WeightedInstances("i1", "a1")}
        \cup {<<i, j>> : i \in WeightedInstances("i1", "a1"),
                         j \in WeightedInstances("i2", "a2")}

InitT ==
    /\ InitRegistry /\ InitPool /\ picks = <<>>
    /\ InitRouter
    /\ loadBalancers = <<>>
    /\ srvOp \in [op : {"listener"}, instances : WeightedLists]
    /\ InitOther

NextT ==
    \/ /\ srvOp.op = "listener"
       /\ updateLoadBalancerBackends(<<"s">>, srvOp.instances)
       /\ UNCHANGED <<regVars, poolVars, picks, otherVars>>

SpecWeight == InitT /\ [][NextT]_vars

\* One server, lock by lock: listener goroutines bring instance lists of the
\* service s and requests arrive for it.
PlaneLists ==
    (<<"s">> :> {<<WireInstance("i1", <<"s">>, "a1")>>,
                 <<WireInstance("i2", <<"s">>, "a2"), WireInstance("i1", <<"s">>, "a1")>>})

PlanePaths == {<<"/", "s", "/", "x">>}

\* The backend answers, or the transport fails.
PlaneUpstreams ==
    {[err |-> TRUE, status |-> StatusBadGateway], [err |-> FALSE, status |-> StatusOK]}

NextE ==
    \/ \E serviceName \in DOMAIN PlaneLists :
          \E instances \in PlaneLists[serviceName] : updateLock(serviceName, instances)
    \/ updateNewPool
    \/ updateAddRoute
    \/ updateAdd
    \/ updateStore
    \/ \E path \in PlanePaths : arrive(path)
    \/ \E req \in BagToSet(reqs) : match(req)
    \/ \E req \in BagToSet(reqs) : lookup(req)
    \/ \E req \in BagToSet(reqs), ws \in BOOLEAN : next(req, ws)
    \/ \E req \in BagToSet(reqs), dialErr \in BOOLEAN : webSocket(req, dialErr)
    \/ \E req \in BagToSet(reqs) : getProxy(req)
    \/ \E req \in BagToSet(reqs) : createProxy(req)
    \/ \E req \in BagToSet(reqs), upstream \in PlaneUpstreams : serveHTTP(req, upstream)

SpecPlane == Init /\ [][NextE]_vars

\* The same server with configuration reloads: Server.UpdateConfig is called
\* with a configuration of each kind while the wiring and the requests run.
\* A goroutine that can take its next step takes it.
NextV ==
    \/ NextE
    \/ \E tls \in TLSReloads : updateConfigLock(tls)
    \/ updateConfigRun

SpecReload == Init /\ [][NextV]_vars /\ WF_vars(updateConfigRun)

(***************************************************************************)
(* Properties of the registry, under Spec.                                 *)
(***************************************************************************)
\* Whether some service of the table holds an instance with the id.
Holds(svcs, id) == \E s \in DOMAIN svcs : Matches(svcs[s], id) # {}

\* C1: in every reachable state of the registry, after any local Register
\* and Deregister calls, received deltas and full-state merges, no service's
\* list holds two instances with the same id.
C1_IdUniqueWithinService ==
    \A s \in DOMAIN services :
        \A j, k \in 1..Len(services[s]) :
            j # k => services[s][j].id # services[s][k].id

\* A merge has just run on a table in which i1 of s1, at its second address,
\* stands before another instance of s1.
C1_Witness ==
    /\ regOp.op = "MergeRemoteState"
    /\ "s1" \in DOMAIN services
    /\ Len(services["s1"]) = 2
    /\ services["s1"][1].address = "a2"

\* C2: Register(inst) is an upsert by id.  Afterwards the list of
\* inst.service holds exactly one entry with inst.id and it equals inst; if
\* the id was in the list, the length and every other entry's position are as
\* before, otherwise the list is the old one with inst appended.
C2_RegisterUpserts ==
    [][\A inst \in Instances :
          (regOp'.op = "Register" /\ regOp'.arg = inst) =>
              LET old == Lookup(services, inst.service)
                  new == Lookup(services', inst.service)
              IN /\ Cardinality(Matches(new, inst.id)) = 1
                 /\ \A k \in Matches(new, inst.id) : new[k] = inst
                 /\ IF Matches(old, inst.id) # {}
                    THEN /\ Len(new) = Len(old)
                         /\ \A k \in 1..Len(old) : old[k].id # inst.id => new[k] = old[k]
                    ELSE new = Append(old, inst)]_vars

\* The last call registered i1 of s1 at its second address, and the instance
\* stands first of two: it was replaced where it stood.
C2_Witness ==
    /\ regOp.op = "Register"
    /\ regOp.arg.address = "a2"
    /\ Len(services[regOp.arg.service]) = 2
    /\ services[regOp.arg.service][1] = regOp.arg

\* C3: an id names at most one instance in the whole registry of a node, also
\* when a second registration of the id names another service.
C3_IdUniqueInRegistry ==
    \A s, u \in DOMAIN services :
        \A j \in 1..Len(services[s]), k \in 1..Len(services[u]) :
            services[s][j].id = services[u][k].id => (s = u /\ j = k)

\* C4: Deregister(id) of an id that no service holds returns an error and
\* changes nothing: the table is as before, no delta is queued and no listener
\* is started.
C4_DeregisterUnknownId ==
    [][\A id \in Ids :
          (regOp'.op = "Deregister" /\ regOp'.arg = id /\ ~Holds(services, id)) =>
              /\ regOp'.err
              /\ services' = services
              /\ broadcasts' = broadcasts
              /\ spawned' = <<>>]_vars

\* A Deregister has failed on a node that holds an instance and has a
\* listener.
C4_Witness ==
    /\ regOp.op = "Deregister"
    /\ regOp.err
    /\ onChange # <<>>
    /\ \E s \in DOMAIN services : services[s] # <<>>

\* C5: after a Deregister(id) that returns success no service holds an
\* instance with the id, and every other instance is still where it was filed.
C5_DeregisterRemovesId ==
    [][\A id \in Ids :
          (regOp'.op = "Deregister" /\ regOp'.arg = id /\ ~regOp'.err) =>
              /\ ~Holds(services', id)
              /\ \A s \in DOMAIN services : \A k \in 1..Len(services[s]) :
                    services[s][k].id # id =>
                        \E j \in 1..Len(Lookup(services', s)) : services'[s][j] = services[s][k]]_vars

\* C6: every Register, every Deregister of an id the node holds, and every
\* received delta that registers an instance or deregisters an id the node
\* holds starts exactly one goroutine per subscribed listener, in order, each
\* with the table as it is right after the change; a Deregister or a received
\* deregister delta of an id the node does not hold starts none.
C6_OneInvocationPerListener ==
    [][LET op == regOp'.op
           arg == regOp'.arg
           isDelta == op = "NotifyMsg" /\ "action" \in DOMAIN arg
           applied ==
               \/ op = "Register"
               \/ op = "Deregister" /\ Holds(services, arg)
               \/ isDelta /\ arg.action = "register" /\ "instance" \in DOMAIN arg
               \/ isDelta /\ arg.action = "deregister" /\ "service_id" \in DOMAIN arg
                          /\ Holds(services, arg.service_id)
           unknown ==
               \/ op = "Deregister" /\ ~Holds(services, arg)
               \/ isDelta /\ arg.action = "deregister" /\ "service_id" \in DOMAIN arg
                          /\ ~Holds(services, arg.service_id)
       IN /\ applied =>
                /\ Len(spawned') = Len(onChange)
                /\ \A k \in 1..Len(onChange) :
                      spawned'[k] = [fn |-> onChange[k], table |-> services']
          /\ unknown => spawned' = <<>>]_vars

\* A received deregister delta has been applied on a node with two listeners:
\* two goroutines were started, and instances are left in the table.
C6_Witness ==
    /\ regOp.op = "NotifyMsg"
    /\ "service_id" \in DOMAIN regOp.arg
    /\ Len(onChange) = 2
    /\ Len(spawned) = 2
    /\ \E s \in DOMAIN services : services[s] # <<>>

(***************************************************************************)
(* Properties of the pools.  A caller at "selected" holds the read lock    *)
(* and has the value Next is about to return; no writer has run since the  *)
(* call began.                                                             *)
(***************************************************************************)
\* The backends that are in the pool.
Members == {backends[k] : k \in 1..Len(backends)}

\* C7: for both pool types, Next returns none exactly when the pool is empty
\* or every backend in it has Active false.
C7_NoneIffNoActiveBackend ==
    \A c \in Callers :
        pc[c] = "selected" =>
            (sel[c] = NoValue <=> \A b \in Members : ~active[b])

\* A least-connection Next is about to return none from a pool that holds
\* backends, all of them marked unhealthy.
C7_Witness ==
    /\ policy = "lc"
    /\ Len(backends) >= 2
    /\ \E c \in Callers : pc[c] = "selected" /\ sel[c] = NoValue

\* C8: after any sequence of Add, Remove, MarkHealthy and MarkUnhealthy, a
\* backend Next returns is in the pool and has Active true: one that Remove
\* took out, or that is marked unhealthy, is not returned.
C8_ReturnedIsActiveMember ==
    \A c \in Callers :
        (pc[c] = "selected" /\ sel[c] # NoValue) =>
            (sel[c] \in Members /\ active[sel[c]])

\* A round-robin Next is about to return a backend while one created backend
\* has been removed from the pool and one backend of the pool is unhealthy.
C8_Witness ==
    /\ policy = "rr"
    /\ \E c \in Callers : pc[c] = "selected" /\ sel[c] # NoValue
    /\ \E b \in created : b \notin Members
    /\ \E b \in Members : ~active[b]

\* The times b occurs in the sequence q.
Count(q, b) == Cardinality({k \in 1..Len(q) : q[k] = b})

\* C9: round-robin over K active backends of a pool that is not modified.
\* Each pick adds one to the counter and returns the backend at index
\* (counter mod K); any K picks in a row return every backend once; and after
\* Rounds * K picks (300 for K = 3) every backend has been picked between 90%
\* and 110% of Rounds times (90 to 110).
C9_RoundRobinFair ==
    LET K == Len(backends)
        n == Len(picks)
    IN /\ \A i \in 1..n : picks[i] = backends[((current - n + i) % K) + 1]
       /\ n >= K => {picks[i] : i \in (n - K + 1)..n} = Members
       /\ n = Rounds * K =>
             \A b \in Members :
                 /\ 90 * Rounds <= 100 * Count(picks, b)
                 /\ 100 * Count(picks, b) <= 110 * Rounds

\* Three backends, and all Rounds * 3 picks made.
C9_Witness ==
    /\ Len(backends) = 3
    /\ Len(picks) = Rounds * 3

\* C10: a least-connection Next selects an active backend whose Connections
\* is least among the active backends of the pool at the time of the call,
\* the one inserted first among those that tie, and none when no backend is
\* active; on return it has added exactly 1 to that backend's counter and
\* left every other counter as it was.
C10_LeastConnection ==
    [][\A c \in Callers :
          policy = "lc" =>
              /\ (pc[c] = "idle" /\ pc'[c] = "selected") =>
                    LET act == {k \in 1..Len(backends) : active[backends[k]]}
                    IN IF act = {}
                       THEN sel'[c] = NoValue
                       ELSE \E k \in act :
                               /\ sel'[c] = backends[k]
                               /\ \A j \in act :
                                     /\ connections[backends[k]] <= connections[backends[j]]
                                     /\ j < k => connections[backends[k]] < connections[backends[j]]
              /\ (pc[c] = "selected" /\ pc'[c] = "idle" /\ sel[c] # NoValue) =>
                    /\ connections'[sel[c]] = connections[sel[c]] + 1
                    /\ \A b \in BackendObjs \ {sel[c]} : connections'[b] = connections[b]]_vars

\* The first of three active backends is selected although the second has the
\* same, non-zero, number of connections and the third has more.
C10_Witness ==
    /\ policy = "lc"
    /\ Len(backends) = 3
    /\ \A b \in Members : active[b]
    /\ connections[backends[1]] = 1
    /\ connections[backends[2]] = 1
    /\ connections[backends[3]] = 2
    /\ \E c \in Callers : pc[c] = "selected" /\ sel[c] = backends[1]

\* C11: Add(backend) appends the backend to the end of the pool and leaves it
\* with Active true, in the round-robin and in the least-connection pool,
\* whatever Active was when the backend was passed in.
C11_AddAppendsActive ==
    [][\A b \in BackendObjs :
          (b \notin created /\ b \in created') =>
              /\ backends' = Append(backends, b)
              /\ active'[b]]_vars

\* C11 as amended: Add(backend) appends the backend to the end of the pool;
\* the least-connection pool leaves it with Active true whatever Active was
\* when it was passed in, the round-robin pool leaves Active as it was passed
\* in.
C11_AddAppendsKeepsFlag ==
    [][\A b \in BackendObjs :
          (b \notin created /\ b \in created') =>
              /\ poolOp'.op = "Add" /\ poolOp'.arg = b
              /\ backends' = Append(backends, b)
              /\ policy = "lc" => active'[b]
              /\ policy = "rr" => active'[b] = poolOp'.act]_vars

\* The last writer of a round-robin pool added a backend that was passed in
\* with Active false: it stands last, after an active one, and is inactive.
C11_Witness ==
    /\ policy = "rr"
    /\ poolOp.op = "Add"
    /\ ~poolOp.act
    /\ Len(backends) = 2
    /\ backends[2] = poolOp.arg
    /\ active[backends[1]]
    /\ ~active[backends[2]]

(***************************************************************************)
(* Properties of the route table.                                          *)
(***************************************************************************)
\* C12: the wildcard pattern "/s/*" matches a request path exactly when the
\* path is "/s", is "/s/", or begins with "/s/" (so "/s2/x" does not match);
\* the pattern "/*" matches every path, "/" included.
C12_WildcardMatch ==
    rtOp.op = "matchPath" =>
        LET q == rtOp.requestPath
        IN /\ rtOp.routePath = <<"/", "s", "/", "*">> =>
                (rtOp.match <=>
                    \/ q = <<"/", "s">>
                    \/ q = <<"/", "s", "/">>
                    \/ Len(q) >= 3 /\ q[1] = "/" /\ q[2] = "s" /\ q[3] = "/")
           /\ rtOp.routePath = <<"/", "*">> => rtOp.match

\* matchPath has found "/s/*" to match the path "/s", which lacks the slash.
C12_Witness ==
    /\ rtOp.op = "matchPath"
    /\ rtOp.routePath = <<"/", "s", "/", "*">>
    /\ rtOp.requestPath = <<"/", "s">>
    /\ rtOp.match

\* C13: an exact pattern matches a request path exactly when the two are
\* equal after one trailing slash is removed from each (the root "/" is kept
\* as it is); the patterns "/s" and "/s/" both match the paths "/s" and "/s/"
\* and no other.
C13_ExactMatch ==
    (rtOp.op = "matchPath" /\ rtOp.routePath[Len(rtOp.routePath)] # "*") =>
        LET stripped(s) ==
                IF s # <<"/">> /\ s[Len(s)] = "/" THEN SubSeq(s, 1, Len(s) - 1) ELSE s
        IN /\ rtOp.match <=> stripped(rtOp.requestPath) = stripped(rtOp.routePath)
           /\ rtOp.routePath \in {<<"/", "s">>, <<"/", "s", "/">>} =>
                (rtOp.match <=> rtOp.requestPath \in {<<"/", "s">>, <<"/", "s", "/">>})

\* matchPath has found the pattern "/s/" to match the path "/s".
C13_Witness ==
    /\ rtOp.op = "matchPath"
    /\ rtOp.routePath = <<"/", "s", "/">>
    /\ rtOp.requestPath = <<"/", "s">>
    /\ rtOp.match

\* C14: Match returns the first route, in insertion order, whose pattern
\* matches the path and whose method list admits the request's method (an
\* empty list admits every method, any other list the methods equal to one of
\* its entries up to case), and none when no route qualifies; a wildcard
\* "/s/*" added before the exact "/s/x" is returned for "/s/x".
C14_FirstQualifyingRoute ==
    rtOp.op = "Match" =>
        LET upper(m) == [k \in 1..Len(m) |-> ToUpper(m[k])]
            admits(l) == l = <<>> \/ \E j \in 1..Len(l) : upper(l[j]) = upper(rtOp.method)
            ok == {k \in 1..Len(routes) :
                      matchPath(rtOp.path, routes[k].Path) /\ admits(routes[k].Methods)}
        IN /\ ok = {} => rtOp.route = NoRoute
           /\ ok # {} =>
                \E k \in ok : rtOp.route = routes[k] /\ \A j \in ok : k <= j
           /\ (/\ Len(routes) = 2
               /\ routes[1].Path = <<"/", "s", "/", "*">>
               /\ routes[2].Path = <<"/", "s", "/", "x">>
               /\ rtOp.path = <<"/", "s", "/", "x">>
               /\ admits(routes[1].Methods)) => rtOp.route = routes[1]

\* Match has returned the wildcard route of one service for "/s/x", a lower-
\* case method and an upper-case entry, although the exact route of another
\* service, added later, qualifies too.
C14_Witness ==
    /\ rtOp.op = "Match"
    /\ Len(routes) = 2
    /\ routes[1].Path = <<"/", "s", "/", "*">>
    /\ routes[1].Methods = <<<<"P", "O", "S", "T">>>>
    /\ routes[2].Path = <<"/", "s", "/", "x">>
    /\ routes[2].Methods = <<>>
    /\ routes[1].ServiceName # routes[2].ServiceName
    /\ rtOp.path = <<"/", "s", "/", "x">>
    /\ rtOp.method = <<"p", "o", "s", "t">>
    /\ rtOp.route = routes[1]

(***************************************************************************)
(* Properties of the data plane, under SpecProxy.                          *)
(***************************************************************************)
\* C15: handleRequest decides in a fixed order.  No matching route: 404.  A
\* matched route whose service has no pool: 500.  A pool whose Next returns
\* none (empty, or every backend unhealthy): 503.  Only otherwise is the
\* request sent on, to exactly one backend, an active one of the pool, and a
\* transport error of that backend gives the client 502; no second backend
\* is tried.
C15_PipelineOrder ==
    [][srvOp'.op = "handleRequest" =>
          LET route == MatchRoute(routes, srvOp'.path, srvOp'.method)
              wrote(code) == "status" \in DOMAIN srvOp' /\ srvOp'.status = code
          IN IF route = NoRoute
             THEN wrote(StatusNotFound) /\ srvOp'.tried = <<>>
             ELSE IF route.ServiceName \notin DOMAIN loadBalancers
             THEN wrote(StatusInternalServerError) /\ srvOp'.tried = <<>>
             ELSE LET lb == loadBalancers[route.ServiceName]
                      act == {k \in 1..Len(lb.backends) : lb.backends[k].Active}
                  IN IF act = {}
                     THEN wrote(StatusServiceUnavailable) /\ srvOp'.tried = <<>>
                     ELSE /\ Len(srvOp'.tried) = 1
                          /\ \E k \in act : srvOp'.tried[1] = lb.backends[k].URL
                          /\ srvOp'.upstreamErr => wrote(StatusBadGateway)]_vars

\* C16: the path sent to the backend of a request matched by the route of
\* service s is the request's path with the leading "/s" taken off once, and
\* "/" when nothing is left; it always begins with a slash.  "/s/x" is sent
\* as "/x", "/s" and "/s/" as "/", "/s/s/x" as "/s/x".
C16_PathRewrite ==
    (srvOp.op = "handleRequest" /\ "sentPath" \in DOMAIN srvOp) =>
        LET q == srvOp.path
            n == Len(srvOp.serviceName) + 1
        IN /\ Len(q) >= n
           /\ SubSeq(q, 1, n) = <<"/">> \o srvOp.serviceName
           /\ srvOp.sentPath = IF Len(q) = n THEN <<"/">> ELSE SubSeq(q, n + 1, Len(q))
           /\ srvOp.sentPath[1] = "/"
           /\ q = <<"/", "s", "/", "x">> => srvOp.sentPath = <<"/", "x">>
           /\ q \in {<<"/", "s">>, <<"/", "s", "/">>} => srvOp.sentPath = <<"/">>
           /\ q = <<"/", "s", "/", "s", "/", "x">> => srvOp.sentPath = <<"/", "s", "/", "x">>

\* A request for "/s/s/x" has been sent to a backend of service s as "/s/x".
C16_Witness ==
    /\ srvOp.op = "handleRequest"
    /\ "sentPath" \in DOMAIN srvOp
    /\ srvOp.serviceName = <<"s">>
    /\ srvOp.path = <<"/", "s", "/", "s", "/", "x">>
    /\ srvOp.sentPath = <<"/", "s", "/", "x">>

(***************************************************************************)
(* Properties of the control API, under SpecApi.                           *)
(***************************************************************************)
\* C17: a POST to the register endpoint is answered 400, with the registry,
\* the broadcast queue and the subscribers left as they were, when id,
\* service or address is empty or not given, the port is 0 or not given, or
\* the service name is api, health, metrics, v1 or begins with "_"; it is
\* answered 201 only when the instance is stored in the registry.
C17_RegistrationValidated ==
    [][(/\ srvOp'.op = "handleServiceRegistration"
        /\ srvOp'.method = "POST"
        /\ "garbage" \notin DOMAIN srvOp'.body) =>
          LET b == srvOp'.body
              given(key) == key \in DOMAIN b
              missing ==
                  \/ ~given("id") \/ ~given("service") \/ ~given("address") \/ ~given("port")
                  \/ b.id = "" \/ b.service = <<>> \/ b.address = "" \/ b.port = 0
              reserved ==
                  /\ given("service")
                  /\ \/ b.service \in {<<"a", "p", "i">>, <<"h", "e", "a", "l", "t", "h">>,
                                        <<"m", "e", "t", "r", "i", "c", "s">>, <<"v", "1">>}
                     \/ b.service # <<>> /\ b.service[1] = "_"
          IN /\ (missing \/ reserved) =>
                  /\ srvOp'.status = StatusBadRequest
                  /\ UNCHANGED <<services, broadcasts, onChange>>
             /\ srvOp'.status = StatusCreated =>
                  /\ b.service \in DOMAIN services'
                  /\ \E k \in 1..Len(services'[b.service]) : services'[b.service][k] = b]_vars

\* A registration that names the service "_x" has been answered 400 by a
\* node that holds an instance, has a listener and has a delta queued.
C17_Witness ==
    /\ srvOp.op = "handleServiceRegistration"
    /\ srvOp.method = "POST"
    /\ "service" \in DOMAIN srvOp.body
    /\ srvOp.body.service = <<"_", "x">>
    /\ srvOp.status = StatusBadRequest
    /\ \E s \in DOMAIN services : services[s] # <<>>
    /\ onChange # <<>>
    /\ broadcasts # <<>>

\* C18: every instance the registry of a node holds has a port from 1 to
\* 65535, whatever registrations the control API and whatever deltas the
\* gossip layer have been handed.
C18_PortInRange ==
    \A s \in DOMAIN services :
        \A k \in 1..Len(services[s]) :
            services[s][k].port >= 1 /\ services[s][k].port <= 65535

\* C19: the deregister endpoint answers 405 to every method but DELETE; to
\* a DELETE that gives an id it answers 200 exactly when the id was
\* registered, and the id is then removed from the registry, and 500 when
\* the id was not registered; an answer of 405 or 500 leaves the registry,
\* the queue and the subscribers as they were.
C19_DeregistrationAnswers ==
    [][srvOp'.op = "handleServiceDeregistration" =>
          /\ srvOp'.method # "DELETE" => srvOp'.status = StatusMethodNotAllowed
          /\ (srvOp'.method = "DELETE" /\ srvOp'.id # "") =>
                /\ srvOp'.status = StatusOK <=> Holds(services, srvOp'.id)
                /\ srvOp'.status = StatusOK => ~Holds(services', srvOp'.id)
                /\ ~Holds(services, srvOp'.id) => srvOp'.status = StatusInternalServerError
          /\ srvOp'.status \in {StatusMethodNotAllowed, StatusInternalServerError} =>
                UNCHANGED <<services, broadcasts, onChange>>]_vars

(***************************************************************************)
(* The broadcast queue of the registry, under Spec.                        *)
(***************************************************************************)
\* C20: a received delta and a merge of a remote state never queue a
\* broadcast.  NotifyMsg and MergeRemoteState leave the queue as it is; a
\* Register adds its register delta, and nothing else, at the end; a
\* Deregister that succeeds adds its deregister delta, and nothing else; a
\* Deregister that fails adds nothing.
C20_BroadcastOnlyLocal ==
    [][/\ regOp'.op \in {"NotifyMsg", "MergeRemoteState"} => broadcasts' = broadcasts
       /\ regOp'.op = "Register" =>
             broadcasts' = Append(broadcasts, RegisterDelta(regOp'.arg))
       /\ (regOp'.op = "Deregister" /\ ~regOp'.err) =>
             broadcasts' = Append(broadcasts, DeregisterDelta(regOp'.arg))
       /\ (regOp'.op = "Deregister" /\ regOp'.err) => broadcasts' = broadcasts]_vars

\* A register delta from a peer has been applied, to a service the node had
\* no instance of, while the queue was empty: it is still empty.
C20_Witness ==
    /\ regOp.op = "NotifyMsg"
    /\ "instance" \in DOMAIN regOp.arg
    /\ services[regOp.arg.instance.service] = <<regOp.arg.instance>>
    /\ spawned # <<>>
    /\ broadcasts = <<>>

(***************************************************************************)
(* Properties of the full-state merge, under SpecMerge.                    *)
(***************************************************************************)
\* The ids of a list of instances, and the instance a list holds for an id.
IdsOf(l) == {l[k].id : k \in 1..Len(l)}

InstanceOf(l, id) == l[First(Matches(l, id))]

\* C21: MergeRemoteState leaves, for each service of the remote state, the
\* union by id of the local and the remote instances: every id of either
\* list once, the remote instance for an id the remote list has, the local
\* instance for an id only the local list has; a service the remote state
\* lacks keeps its list; and the same call made again changes nothing.
C21_MergeIsUnionById ==
    [][/\ (srvOp'.op = "MergeRemoteState" /\ "garbage" \notin DOMAIN srvOp'.buf) =>
             LET buf == srvOp'.buf
             IN /\ DOMAIN services' = (DOMAIN services) \cup (DOMAIN buf)
                /\ \A s \in (DOMAIN services) \ (DOMAIN buf) : services'[s] = services[s]
                /\ \A s \in DOMAIN buf :
                      LET local == Lookup(services, s)
                          merged == services'[s]
                      IN /\ IdsOf(merged) = IdsOf(local) \cup IdsOf(buf[s])
                         /\ Len(merged) = Cardinality(IdsOf(merged))
                         /\ \A id \in IdsOf(buf[s]) :
                               InstanceOf(merged, id) = InstanceOf(buf[s], id)
                         /\ \A id \in IdsOf(local) \ IdsOf(buf[s]) :
                               InstanceOf(merged, id) = InstanceOf(local, id)
       /\ (srvOp'.op = "again" /\ "garbage" \notin DOMAIN srvOp'.buf) =>
             services' = services]_vars

\* The merge has been made twice, of a remote state that has another
\* instance for an id the node held, lacks an id the node held in the same
\* service, and lacks a service the node held.
C21_Witness ==
    /\ srvOp.op = "again"
    /\ "garbage" \notin DOMAIN srvOp.buf
    /\ (DOMAIN srvOp.local) \ (DOMAIN srvOp.buf) # {}
    /\ \E s \in (DOMAIN srvOp.local) \cap (DOMAIN srvOp.buf) :
          /\ \E id \in IdsOf(srvOp.local[s]) \cap IdsOf(srvOp.buf[s]) :
                /\ InstanceOf(srvOp.local[s], id) # InstanceOf(srvOp.buf[s], id)
                /\ InstanceOf(services[s], id) = InstanceOf(srvOp.buf[s], id)
          /\ \E id \in IdsOf(srvOp.local[s]) \ IdsOf(srvOp.buf[s]) :
                InstanceOf(services[s], id) = InstanceOf(srvOp.local[s], id)

(***************************************************************************)
(* Properties of the cluster, under SpecCluster.                           *)
(***************************************************************************)
\* The instances a table holds, whatever their order.
Content(t) == UNION {{t[s][k] : k \in 1..Len(t[s])} : s \in DOMAIN t}

\* The last local mutation of an id made on any node: the position in the
\* ledger, 0 when there is none.
IdOfDelta(delta) ==
    IF delta.action = "register" THEN delta.instance.id ELSE delta.service_id

LastMutation(id) ==
    LET at == {k \in 1..Len(ledger) : IdOfDelta(ledger[k].delta) = id}
    IN IF at = {} THEN 0 ELSE CHOOSE k \in at : \A j \in at : j <= k

\* The union by id of all local mutations: the instance of every id whose
\* last mutation is a registration.
UnionOfMutations ==
    {ledger[LastMutation(id)].delta.instance :
        id \in {i \in Ids : /\ LastMutation(i) # 0
                            /\ ledger[LastMutation(i)].delta.action = "register"}}

\* Every delta has been delivered: none is on its way, none was lost.
AllDelivered == ~lost /\ \A l \in Nodes \X Nodes : links[l] = <<>>

\* C22: once every delta has been delivered to every other node and none
\* was lost, every node's registry holds exactly the union by id of the
\* local mutations made on any node, so all nodes hold the same registry.
C22_GossipConvergence ==
    AllDelivered =>
        /\ \A n \in Nodes : Content(tables[n]) = UnionOfMutations
        /\ \A n, m \in Nodes : Content(tables[n]) = Content(tables[m])

\* The ids the last local mutation of which, on any node, is a
\* deregistration, and those of which it is a registration.
Deregistered ==
    {i \in Ids : /\ LastMutation(i) # 0
                 /\ ledger[LastMutation(i)].delta.action = "deregister"}

\* C23: a push/pull exchange of two nodes, made when no delta is on its way
\* any more, heals what lost deltas left: both nodes then hold every
\* instance whose registration was the last mutation of its id, and neither
\* holds an id whose last mutation was a deregistration.
C23_AntiEntropyHeals ==
    [][(clOp'.op = "PushPull" /\ \A l \in Nodes \X Nodes : links[l] = <<>>) =>
          \A n \in {clOp'.node, clOp'.peer} :
              /\ UnionOfMutations \subseteq Content(tables'[n])
              /\ \A id \in Deregistered : ~Holds(tables'[n], id)]_vars

\* The registrations of an id in the ledger.
RegistrationsOf(id) ==
    {k \in 1..Len(ledger) : /\ ledger[k].delta.action = "register"
                            /\ ledger[k].delta.instance.id = id}

\* C24: when the only mutations of an id were two registrations made on
\* two different nodes with different contents, then once both deltas have
\* been delivered all nodes hold the same single instance for that id.
C24_ConcurrentRegistrationsConverge ==
    \A id \in Ids :
        (/\ AllDelivered
         /\ LastMutation(id) # 0
         /\ \A k \in 1..Len(ledger) : IdOfDelta(ledger[k].delta) = id => k \in RegistrationsOf(id)
         /\ \E j, k \in RegistrationsOf(id) :
               /\ RegistrationsOf(id) = {j, k}
               /\ ledger[j].node # ledger[k].node
               /\ ledger[j].delta.instance # ledger[k].delta.instance)
        => \E inst \in ClusterInstances :
              \A n \in Nodes : {i \in Content(tables[n]) : i.id = id} = {inst}

(***************************************************************************)
(* Properties of the wiring, under SpecProxy and SpecWire.                 *)
(***************************************************************************)
\* What a call of updateLoadBalancerBackends does beside the backends: the
\* new pool is of the type of the pool it replaces, with its counter at 0; a
\* service without a pool gets a round-robin pool and, at the end of the
\* route table, the route "/service/*" with the six methods; the route table
\* is otherwise left alone, and so are the pools of the other services.
PoolAndRouteOf(serviceName) ==
    /\ serviceName \in DOMAIN loadBalancers'
    /\ loadBalancers'[serviceName].current = 0
    /\ \A other \in DOMAIN loadBalancers \ {serviceName} :
          other \in DOMAIN loadBalancers' /\ loadBalancers'[other] = loadBalancers[other]
    /\ IF serviceName \in DOMAIN loadBalancers
       THEN /\ loadBalancers'[serviceName].type = loadBalancers[serviceName].type
            /\ routes' = routes
       ELSE /\ loadBalancers'[serviceName].type = "rr"
            /\ Len(routes') = Len(routes) + 1
            /\ SubSeq(routes', 1, Len(routes)) = routes
            /\ routes'[Len(routes')].Path = <<"/">> \o serviceName \o <<"/", "*">>
            /\ routes'[Len(routes')].ServiceName = serviceName
            /\ routes'[Len(routes')].Methods =
                  <<<<"G", "E", "T">>, <<"P", "O", "S", "T">>, <<"P", "U", "T">>,
                    <<"D", "E", "L", "E", "T", "E">>, <<"P", "A", "T", "C", "H">>,
                    <<"O", "P", "T", "I", "O", "N", "S">>>>

\* Whether the backends are, one for one and in order, the given instances:
\* each with the URL http://address:port, and active.
BackendsAre(bs, instances) ==
    /\ Len(bs) = Len(instances)
    /\ \A k \in 1..Len(instances) :
          /\ bs[k].URL = <<"http", instances[k].address, instances[k].port>>
          /\ bs[k].Active

\* C25, as stated: after updateLoadBalancerBackends has been called for a
\* service with the instances of a snapshot, the service's pool has exactly
\* those instances as its backends, in order, each with the URL
\* http://address:port and active; the pool is of the type of the pool it
\* replaces; a service seen for the first time gets a round-robin pool and
\* the route "/service/*" for GET, POST, PUT, DELETE, PATCH and OPTIONS.
C25_PoolIsSnapshot ==
    [][srvOp'.op = "updateLoadBalancerBackends" =>
          /\ PoolAndRouteOf(srvOp'.serviceName)
          /\ BackendsAre(loadBalancers'[srvOp'.serviceName].backends,
                         srvOp'.instances)]_vars

\* C25, amended: the backends of the new pool are the instances of the
\* snapshot for which "http://address:port" parses as a URL, in order, each
\* with that URL and active; an instance with an address such as "%zz" gets
\* no backend.  The rest is as stated.
C25_PoolIsParsableSnapshot ==
    [][srvOp'.op = "updateLoadBalancerBackends" =>
          /\ PoolAndRouteOf(srvOp'.serviceName)
          /\ BackendsAre(loadBalancers'[srvOp'.serviceName].backends,
                         SelectSeq(srvOp'.instances,
                                   LAMBDA i : i.address # BadAddr))]_vars

\* The pool of service s, which had a pool, has been replaced by one with
\* the two instances of a snapshot, while service s2 has its pool and route.
C25_Witness ==
    /\ srvOp.op = "updateLoadBalancerBackends"
    /\ srvOp.serviceName = <<"s">>
    /\ Len(srvOp.instances) = 2
    /\ Len(loadBalancers[<<"s">>].backends) = 2
    /\ <<"s", "2">> \in DOMAIN loadBalancers
    /\ Len(routes) = 2
    /\ routes[1].ServiceName = <<"s", "2">>

\* C26: the wiring removes no route and no pool: a route of the table is at
\* its place in every later state and a service with a pool keeps having one;
\* and once the last instance of service s has been deregistered and every
\* listener goroutine has run to its end, a request for "/s/x" is answered
\* 503, not 404.
C26_RoutesStayAndEmptyPoolAnswers503 ==
    [][/\ Len(routes') >= Len(routes)
       /\ \A k \in 1..Len(routes) : routes'[k] = routes[k]
       /\ DOMAIN loadBalancers \subseteq DOMAIN loadBalancers'
       /\ (/\ srvOp'.op = "handleRequest"
           /\ srvOp'.path = <<"/", "s", "/", "x">>
           /\ <<"s">> \in DOMAIN services
           /\ services[<<"s">>] = <<>>
           /\ tasks = <<>>)
          => srvOp'.status = StatusServiceUnavailable]_vars

\* C27: a request for a service is sent to no backend that the health
\* checker has marked unhealthy and has not since probed with success,
\* whatever rebuilds of the pool (registrations and deregistrations of other
\* instances) have happened since.
C27_NoDispatchToMarkedBackend ==
    [][(srvOp'.op = "handleRequest" /\ srvOp'.tried # <<>>) =>
          \A k \in 1..Len(srvOp'.tried) :
             <<srvOp'.serviceName, srvOp'.tried[k]>> \notin marked]_vars

(***************************************************************************)
(* Properties of the registry's reads, under SpecCopy.                     *)
(***************************************************************************)
\* The registry as later reads see it: every instance with the entries of
\* its Metadata map.
Stored(svcs, h) ==
    [s \in DOMAIN svcs |->
        [k \in 1..Len(svcs[s]) |->
            [inst |-> svcs[s][k],
             entries |-> IF svcs[s][k].metadata = 0 THEN <<>> ELSE h[svcs[s][k].metadata]]]]

\* C28: whatever a caller does to the list GetInstances returned, to the
\* table GetAllServices returned or to the table a listener was handed -
\* replacing an element, removing one, writing an entry of an instance's
\* Metadata map - the registry, as later reads see it, is as it was.
C28_CallersCannotMutate ==
    [][handed'.op \in {"replace", "remove", "setMetadata"} =>
          Stored(services', heap') = Stored(services, heap)]_vars

\* C29: the registry of a node holds no instance whose service name is
\* empty, is api, health, metrics or v1, or begins with "_", whatever deltas
\* the node receives; and the route table has no route for such a name.
C29_NoReservedNameFromGossip ==
    LET reserved(name) ==
            \/ name = <<>>
            \/ name \in {<<"a", "p", "i">>, <<"h", "e", "a", "l", "t", "h">>,
                         <<"m", "e", "t", "r", "i", "c", "s">>, <<"v", "1">>}
            \/ name[1] = "_"
    IN /\ \A s \in DOMAIN services :
             /\ services[s] # <<>> => ~reserved(s)
             /\ \A k \in 1..Len(services[s]) : ~reserved(services[s][k].service)
       /\ \A k \in 1..Len(routes) : ~reserved(routes[k].ServiceName)

(***************************************************************************)
(* Messages the registry drops, under Spec.                                *)
(***************************************************************************)
\* The messages the claim lists.
Malformed(msg) ==
    \/ "garbage" \in DOMAIN msg
    \/ "action" \notin DOMAIN msg
    \/ msg.action \notin {"register", "deregister"}
    \/ msg.action = "register" /\ "instance" \notin DOMAIN msg
    \/ msg.action = "deregister" /\ "service_id" \notin DOMAIN msg

\* C30: a received message that is no JSON, has no string action, has an
\* action other than register and deregister, or lacks the instance object
\* (register) or the service_id string (deregister) is dropped: the table,
\* the queue and the listeners are as they were and no listener goroutine is
\* started.  The node goes on: a register delta received right after a
\* dropped message is applied.
C30_MalformedDropped ==
    [][/\ (regOp'.op = "NotifyMsg" /\ Malformed(regOp'.arg)) =>
             /\ services' = services
             /\ broadcasts' = broadcasts
             /\ onChange' = onChange
             /\ spawned' = <<>>
       /\ (/\ regOp.op = "NotifyMsg" /\ Malformed(regOp.arg)
           /\ regOp'.op = "NotifyMsg" /\ ~Malformed(regOp'.arg)
           /\ regOp'.arg.action = "register") =>
             \E k \in 1..Len(services'[regOp'.arg.instance.service]) :
                services'[regOp'.arg.instance.service][k] = regOp'.arg.instance]_vars

\* A message that is no JSON has been received by a node that holds
\* instances and has a listener: no goroutine was started.
C30_Witness ==
    /\ regOp.op = "NotifyMsg"
    /\ regOp.arg = Garbage
    /\ services # <<>>
    /\ onChange # <<>>
    /\ spawned = <<>>

(***************************************************************************)
(* Properties of the health checker, under SpecHealth.                     *)
(***************************************************************************)
\* C31: after a probe of a backend its Active flag is TRUE exactly when the
\* probe brought a response with status 200, and FALSE for every other
\* status, a transport error and a timeout; the pool's MarkHealthy or
\* MarkUnhealthy is called exactly when that changes the flag; no other
\* backend and no pool is touched.
C31_ProbeSetsFlag ==
    [][srvOp'.op = "check" =>
          LET s == srvOp'.serviceName
              k == srvOp'.k
              ok == srvOp'.resp.err = "none" /\ srvOp'.resp.status = 200
              before == loadBalancers[s].backends[k].Active
          IN /\ loadBalancers'[s].backends[k].Active = ok
             /\ srvOp'.called = IF before = ok THEN "none"
                                ELSE IF ok THEN "MarkHealthy" ELSE "MarkUnhealthy"
             /\ before = ok => loadBalancers' = loadBalancers
             /\ loadBalancers' =
                   [loadBalancers EXCEPT ![s].backends[k].Active = ok]]_vars

\* A probe answered 204 has found its backend active: MarkUnhealthy was
\* called and the flag is down.
C31_Witness ==
    /\ srvOp.op = "check"
    /\ srvOp.resp.status = 204
    /\ srvOp.called = "MarkUnhealthy"
    /\ ~loadBalancers[srvOp.serviceName].backends[srvOp.k].Active

(***************************************************************************)
(* The wiring and the registry, under SpecWire.                            *)
(***************************************************************************)
\* C37: once every listener goroutine that was started has run to its end,
\* in whatever order, the pool of every service that has one holds exactly
\* the backends of the instances the registry holds for the service: none of
\* a deregistered instance, one for every registered instance.
C37_WiringConverges ==
    tasks = <<>> =>
        \A s \in DOMAIN loadBalancers :
           LET held == IF s \in DOMAIN services THEN services[s] ELSE <<>>
               pool == loadBalancers[s].backends
           IN /\ Len(pool) = Len(held)
              /\ \A k \in 1..Len(held) :
                    pool[k].URL = <<"http", held[k].address, held[k].port>>

(***************************************************************************)
(* A node that joins, under SpecJoin.                                      *)
(***************************************************************************)
\* Every service of the registry has its route and a pool with the backends
\* of its instances.
Routable ==
    \A s \in DOMAIN services :
       /\ \E k \in 1..Len(routes) :
             /\ routes[k].Path = <<"/">> \o s \o <<"/", "*">>
             /\ routes[k].ServiceName = s
       /\ s \in DOMAIN loadBalancers
       /\ Len(loadBalancers[s].backends) = Len(services[s])
       /\ \A k \in 1..Len(services[s]) :
             loadBalancers[s].backends[k].URL =
                <<"http", services[s][k].address, services[s][k].port>>

\* C38: on a node that has merged the seed's table at join time, before the
\* listener was subscribed, every service of that table eventually has its
\* route "/s/*" and a pool with the seed's instances, with no registration
\* or deregistration made anywhere.
C38_JoinedServicesBecomeRoutable ==
    (services # <<>>) ~> Routable

\* The node that joined serves a request for a service it learned at join
\* time: no instance was registered on it, no delta received.
C38_Witness ==
    /\ Routable
    /\ <<"s", "2">> \in DOMAIN services
    /\ srvOp.op = "handleRequest"
    /\ srvOp.status = StatusOK
    /\ srvOp.serviceName = <<"s", "2">>

(***************************************************************************)
(* Properties of the configuration, under SpecConfig.                      *)
(***************************************************************************)
InRange(port) == port \in 1..65535

\* C34: Validate, applied to a configuration that setDefaults has completed,
\* returns no error if and only if the three ports are each in 1..65535 and
\* pairwise distinct, the health-check interval and timeout are each at
\* least 1s and the timeout is less than the interval, the read, write and
\* idle timeouts are each at least 1s, the log level is one of debug, info,
\* warn, error and the format one of text, json (in any letter case), and
\* the TLS section, when there is one, names a cert file and a key file.
C34_ValidateAcceptsIff ==
    srvOp.op = "Validate" =>
        LET c == srvOp.c
        IN (srvOp.err = "nil") <=>
              /\ InRange(c.Server.Port)
              /\ InRange(c.Server.MetricsPort)
              /\ InRange(c.Server.GossipPort)
              /\ Cardinality({c.Server.Port, c.Server.MetricsPort, c.Server.GossipPort}) = 3
              /\ c.HealthCheck.Interval >= Second
              /\ c.HealthCheck.Timeout >= Second
              /\ c.HealthCheck.Timeout < c.HealthCheck.Interval
              /\ c.Timeouts.Read >= Second
              /\ c.Timeouts.Write >= Second
              /\ c.Timeouts.Idle >= Second
              /\ \E l \in validLevels : ToLower(c.Logging.Level) = l
              /\ \E f \in validFormats : ToLower(c.Logging.Format) = f
              /\ \A k \in DOMAIN c.TLS : c.TLS[k].CertFile # "" /\ c.TLS[k].KeyFile # ""

\* A file that sets the health-check timeout to the interval's default and
\* nothing else has been rejected: every other test passes on the defaults.
C34_Witness ==
    /\ srvOp.op = "Validate"
    /\ srvOp.file.HealthCheck = [Interval |-> 0, Timeout |-> 10 * Second]
    /\ srvOp.c.HealthCheck.Interval = 10 * Second
    /\ srvOp.err = "timeout and interval"

(***************************************************************************)
(* Properties of the backend weights, under SpecWeight.                    *)
(***************************************************************************)
\* Whether the string is a decimal number above zero.
IsPositiveNumber(str) == ~Atoi(str).err /\ Atoi(str).n > 0

\* C40: every backend the wiring has built has a weight above zero: the
\* number in Metadata["weight"] of its instance when that is a number above
\* zero, and 1 when the key is absent or holds anything else.
C40_WeightIsPositive ==
    srvOp.op = "updateLoadBalancerBackends" =>
        \A k \in 1..Len(srvOp.instances) :
            LET instance == srvOp.instances[k]
                backend == loadBalancers[<<"s">>].backends[k]
                keyed == "Metadata" \in DOMAIN instance
                            /\ "weight" \in DOMAIN instance.Metadata
            IN /\ backend.Weight \in Nat \ {0}
               /\ backend.Weight =
                     IF keyed /\ IsPositiveNumber(instance.Metadata.weight)
                     THEN Atoi(instance.Metadata.weight).n
                     ELSE 1

(***************************************************************************)
(* Properties of the server lock by lock, under SpecPlane.                 *)
(***************************************************************************)
\* The requests that have a backend: those past Next and not yet done.
InFlight == {req \in BagToSet(reqs) : "backend" \in DOMAIN req}

\* C32: no more proxy objects have been created than there are backend URLs
\* with a proxy, and every request that has its proxy has the one the table
\* holds for its backend URL.
C32_OneProxyPerURL ==
    /\ made = Cardinality(DOMAIN reverseProxies)
    /\ \A req \in InFlight :
          "proxy" \in DOMAIN req => req.proxy = reverseProxies[req.backend.URL]

\* The requests in flight to the backend URL.
RECURSIVE InFlightTo(_, _)
InFlightTo(among, url) ==
    IF among = {} THEN 0
    ELSE LET req == CHOOSE q \in among : TRUE
         IN (IF req.backend.URL = url THEN CopiesIn(req, reqs) ELSE 0)
               + InFlightTo(among \ {req}, url)

RoutesOf(serviceName) == {k \in 1..Len(routes) : routes[k].ServiceName = serviceName}

\* C36: the service of every route has a pool; while the wiring does not
\* hold Server.mu, every service with a pool has exactly one route, and it
\* is "/service/*"; and no request has been answered 500.
C36_RoutesAndPoolsCorrespond ==
    /\ \A k \in 1..Len(routes) : routes[k].ServiceName \in DOMAIN loadBalancers
    /\ mu.writer.by # "updateLoadBalancerBackends" =>
          \A s \in DOMAIN loadBalancers :
              /\ Cardinality(RoutesOf(s)) = 1
              /\ \A k \in RoutesOf(s) : routes[k].Path = <<"/">> \o s \o <<"/", "*">>
    /\ \A req \in BagToSet(reqs) :
          "status" \in DOMAIN req => req.status # StatusInternalServerError

\* A request has matched the route of a service seen for the first time and
\* is about to read the pool map, while the wiring still holds the lock and
\* the map has the empty pool.
C36_Witness ==
    /\ upd.pc = "Add"
    /\ loadBalancers[upd.serviceName].backends = <<>>
    /\ \E req \in BagToSet(reqs) :
          req.pc = "loadBalancers" /\ req.serviceName = upd.serviceName

\* C39: the pool a request has found in the map is one the wiring has
\* completed: its backends are those of a whole instance list, never none
\* and never a part; and the backend a request holds is one of that pool.
C39_PoolReplacedAtomically ==
    \A req \in BagToSet(reqs) :
        "got" \in DOMAIN req =>
            /\ \E instances \in PlaneLists[<<"s">>] : req.got = NewBackends(instances)
            /\ "backend" \in DOMAIN req =>
                  \E k \in 1..Len(req.got) : req.got[k].URL = req.backend.URL

\* A request holds the pool it found while another pool has taken its place
\* in the map, and a request in flight has its backend from the old pool.
C39_Witness ==
    /\ \E req \in BagToSet(reqs) :
          /\ req.pc = "Next"
          /\ req.at > 0
          /\ retired[req.at].backends = req.got
          /\ loadBalancers[<<"s">>].backends # req.got
    /\ \E req \in InFlight : req.got # loadBalancers[<<"s">>].backends

(***************************************************************************)
(* Properties of the configuration reload, under SpecReload.               *)
(***************************************************************************)
\* C35: every call of Server.UpdateConfig returns, with Server.mu and
\* TLSManager.mu released, whatever the TLS section of the configuration.
C35_ReloadTerminates ==
    (cfg.pc # "idle") ~>
        (cfg.pc = "idle" /\ mu.writer.by # "UpdateConfig" /\ tlsMu.writer = Nobody)

====
